---- MODULE Spec2Model ----
(***************************************************************************)
(* Plan lifecycle engine of ai_agent_kernel: Executor (validation,         *)
(* dependency graph, ordering, step execution, execute_plan) and the       *)
(* Planner's self-correction loop, modelled from core/executor.py,         *)
(* core/planner.py, core/critic.py, core/tools.py and core/observability.py*)
(***************************************************************************)
EXTENDS Integers, Sequences, FiniteSets, TLC

(***************************************************************************)
(* Bounds of the model                                                     *)
(***************************************************************************)
MaxSteps == 3
MaxShapeSteps == 2
MaxIter == 3

(***************************************************************************)
(* The tool registry of the process (core/tools.py, tool_registry)         *)
(***************************************************************************)
VARIABLES
    registry_tools    \* names registered in tool_registry.tools

(***************************************************************************)
(* Values                                                                  *)
(***************************************************************************)
\* step ids used by the plans; single characters, so that the text of a
\* "{{id}}" placeholder is the id between two pairs of braces
StepIds == {"A", "B", "C"}
\* value of step.get(key) when the key is absent or empty (None / "")
Missing == "<missing>"
\* the tool_registry of the process: one registered plain tool
RegisteredTools == {"calc"}
UnregisteredTools == {"ghost"}

BoundedSeq(S, n) == UNION {[1..k -> S] : k \in 0..n}
Range(s) == {s[i] : i \in DOMAIN s}
Contains(s, x) == \E i \in DOMAIN s : s[i] = x
Perms(S) == {p \in [1..Cardinality(S) -> S] : Range(p) = S}

\* ToolRegistry.get_tool_config: self.tools.get(tool_name)
get_tool_config(tool_name) == IF tool_name \in registry_tools THEN tool_name ELSE Missing

\* the registry after a lookup: dict.get leaves self.tools as it is
ToolsAfterLookupPop(tools, tool_name) == tools \ {tool_name}
ToolsAfterLookup(tools, tool_name) == tools

(***************************************************************************)
(* Plans.  A step is a record id/type/tool/deps/params.                    *)
(*   OrderPlans: well-shaped TOOL_CALL steps with at most one dependency   *)
(*               each (cycles, duplicate ids, forward references occur).   *)
(*   WidePlans:  one step per step id, listed in any order, each with up   *)
(*               to two dependencies (diamonds, longer cycles occur).      *)
(*   ShapePlans: short plans whose steps vary in id/type/tool presence.    *)
(***************************************************************************)
NoParams == << >>
OneDep == {<< >>} \cup {<<a>> : a \in StepIds}
TwoDeps == OneDep \cup {<<a, b>> : a \in StepIds, b \in StepIds}
ToolStep(id, deps) == [id |-> id, type |-> "TOOL_CALL", tool |-> "calc", deps |-> deps, params |-> NoParams]
OrderSteps == {ToolStep(id, deps) : id \in StepIds, deps \in OneDep}
OrderPlans == BoundedSeq(OrderSteps, MaxSteps)
WidePlans == {[i \in 1..Cardinality(StepIds) |-> ToolStep(p[i], d[i])] :
                 p \in Perms(StepIds), d \in [1..Cardinality(StepIds) -> TwoDeps]}

ShapeKinds == {<<"TOOL_CALL", "calc">>, <<"TOOL_CALL", "ghost">>, <<"TOOL_CALL", Missing>>,
               <<"DIRECT_ANSWER", Missing>>, <<Missing, Missing>>}
ShapeSteps == {[id |-> i, type |-> k[1], tool |-> k[2], deps |-> d, params |-> NoParams] :
                  i \in {"A", "B", Missing}, k \in ShapeKinds, d \in {<< >>, <<"A">>, <<"B">>}}
ShapePlans == BoundedSeq(ShapeSteps, MaxShapeSteps)

StepIdsOf(steps) == {steps[i].id : i \in DOMAIN steps}
UniqueIds(steps) == \A i, j \in DOMAIN steps : steps[i].id = steps[j].id => i = j

(***************************************************************************)
(* Executor._build_dependency_graph.  A Python dict is a sequence of keys  *)
(* in insertion order plus a map; assigning an existing key keeps its      *)
(* position and replaces its value.                                        *)
(***************************************************************************)
EmptyGraph == [keys |-> << >>, adj |-> << >>]

\* d[key] = val on a Python dict
DictSet(g, key, val) ==
    IF Contains(g.keys, key)
    THEN [g EXCEPT !.adj = [k \in Range(g.keys) |-> IF k = key THEN val ELSE g.adj[k]]]
    ELSE [keys |-> Append(g.keys, key),
          adj |-> [k \in Range(g.keys) \cup {key} |-> IF k = key THEN val ELSE g.adj[k]]]

\* graph[key] = [] (line 334 and line 337)
GraphReset(g, key) == DictSet(g, key, << >>)

\* graph[dep_id].append(step_id) (line 338)
GraphAppend(g, key, x) == [g EXCEPT !.adj[key] = Append(@, x)]

\* lines 335-338 for one step: the loop over its dependencies
RECURSIVE AddDependencies(_, _, _, _)
AddDependencies(g, step_id, deps, i) ==
    IF i > Len(deps) THEN g
    ELSE LET g1 == IF Contains(g.keys, deps[i]) THEN g ELSE GraphReset(g, deps[i])
         IN AddDependencies(GraphAppend(g1, deps[i], step_id), step_id, deps, i + 1)

\* lines 329-338: the loop over the steps
RECURSIVE BuildFrom(_, _, _)
BuildFrom(g, steps, i) ==
    IF i > Len(steps) THEN g
    ELSE BuildFrom(AddDependencies(GraphReset(g, steps[i].id), steps[i].id, steps[i].deps, 1),
                   steps, i + 1)

build_dependency_graph(steps) == BuildFrom(EmptyGraph, steps, 1)

(***************************************************************************)
(* Executor._topological_sort.  all_steps is a Python set of strings, so   *)
(* the order in which in_degree (and the initial queue) lists the ids is   *)
(* any permutation `perm` of the ids.                                      *)
(***************************************************************************)
AllSteps(g) == Range(g.keys) \cup UNION {Range(g.adj[k]) : k \in Range(g.keys)}

Occurrences(s, x) == Cardinality({i \in DOMAIN s : s[i] = x})

\* lines 350-353
InDegree(g) ==
    [n \in AllSteps(g) |->
        LET Count[i \in 0..Len(g.keys)] ==
              IF i = 0 THEN 0 ELSE Count[i - 1] + Occurrences(g.adj[g.keys[i]], n)
        IN Count[Len(g.keys)]]

\* lines 364-368: for dep_step_id, deps in graph.items()
RECURSIVE RemoveFromDependents(_, _, _, _)
RemoveFromDependents(g, step_id, i, st) ==
    IF i > Len(g.keys) THEN st
    ELSE LET k == g.keys[i]
         IN IF Contains(g.adj[k], step_id)
            THEN LET d == st.in_degree[k] - 1
                 IN RemoveFromDependents(g, step_id, i + 1,
                        [in_degree |-> [st.in_degree EXCEPT ![k] = d],
                         queue |-> IF d = 0 THEN Append(st.queue, k) ELSE st.queue])
            ELSE RemoveFromDependents(g, step_id, i + 1, st)

\* lines 359-368: while queue
RECURSIVE KahnLoop(_, _, _, _)
KahnLoop(g, queue, in_degree, result) ==
    IF queue = << >> THEN result
    ELSE LET step_id == Head(queue)
             st == RemoveFromDependents(g, step_id, 1, [in_degree |-> in_degree, queue |-> Tail(queue)])
         IN KahnLoop(g, st.queue, st.in_degree, Append(result, step_id))

\* lines 342-376
topological_sort(g, perm) ==
    LET in_degree == InDegree(g)
        queue == SelectSeq(perm, LAMBDA n : in_degree[n] = 0)
        result == KahnLoop(g, queue, in_degree, << >>)
    IN IF Len(result) # Cardinality(AllSteps(g)) THEN g.keys ELSE result

(***************************************************************************)
(* Executor._has_circular_dependency: DFS with a recursion stack over      *)
(* graph[step_id] = dependencies.  has_cycle mutates visited and rec_stack *)
(* and returns a boolean: the state is threaded through the recursion.     *)
(***************************************************************************)
\* lines 252-256
RECURSIVE DependencyMapFrom(_, _, _)
DependencyMapFrom(g, steps, i) ==
    IF i > Len(steps) THEN g
    ELSE DependencyMapFrom(DictSet(g, steps[i].id, steps[i].deps), steps, i + 1)

DependencyMap(steps) == DependencyMapFrom(EmptyGraph, steps, 1)

\* graph.get(node, [])
Neighbors(g, node) == IF Contains(g.keys, node) THEN g.adj[node] ELSE << >>

\* rec_stack.remove(node) (line 275)
LeaveNodeKeepsStack(rec_stack, node) == rec_stack
LeaveNode(rec_stack, node) == rec_stack \ {node}

RECURSIVE has_cycle(_, _, _)
RECURSIVE VisitNeighbors(_, _, _, _)
\* lines 262-276
has_cycle(g, node, st) ==
    IF node \in st.rec_stack THEN [st EXCEPT !.found = TRUE]
    ELSE IF node \in st.visited THEN [st EXCEPT !.found = FALSE]
    ELSE LET entered == [visited |-> st.visited \cup {node},
                         rec_stack |-> st.rec_stack \cup {node},
                         found |-> FALSE]
             after == VisitNeighbors(g, Neighbors(g, node), 1, entered)
         IN IF after.found THEN after
            ELSE [after EXCEPT !.rec_stack = LeaveNode(after.rec_stack, node)]

\* lines 271-273: for neighbor in graph.get(node, [])
VisitNeighbors(g, nbrs, i, st) ==
    IF i > Len(nbrs) THEN [st EXCEPT !.found = FALSE]
    ELSE LET r == has_cycle(g, nbrs[i], st)
         IN IF r.found THEN r ELSE VisitNeighbors(g, nbrs, i + 1, r)

\* lines 278-283: for step_id in graph
RECURSIVE CycleScan(_, _, _)
CycleScan(g, i, st) ==
    IF i > Len(g.keys) THEN FALSE
    ELSE IF g.keys[i] \in st.visited THEN CycleScan(g, i + 1, st)
    ELSE LET r == has_cycle(g, g.keys[i], st)
         IN IF r.found THEN TRUE ELSE CycleScan(g, i + 1, r)

\* lines 248-287
has_circular_dependency(steps) ==
    CycleScan(DependencyMap(steps), 1, [visited |-> {}, rec_stack |-> {}, found |-> FALSE])

(***************************************************************************)
(* Executor._validate_execution_plan.  An issue is recorded by its type,   *)
(* the position of the step it is about (0 for the plan) and its severity. *)
(***************************************************************************)
ComplexPlanSteps == 20

Issue(t, i, sev) == [type |-> t, step |-> i, severity |-> sev]

\* lines 181-219: the issues of one step, in the order they are appended
StepIssuesFirstOnly(step, i) ==
    IF step.id = Missing THEN <<Issue("missing_step_id", i, "high")>>
    ELSE IF step.type = Missing THEN <<Issue("missing_step_type", i, "high")>>
    ELSE IF step.type = "TOOL_CALL" /\ step.tool = Missing
    THEN <<Issue("missing_tool_name", i, "high")>>
    ELSE IF step.type = "TOOL_CALL" /\ get_tool_config(step.tool) = Missing
    THEN <<Issue("tool_not_found", i, "high")>>
    ELSE << >>
StepIssues(step, i) ==
    (IF step.id = Missing THEN <<Issue("missing_step_id", i, "high")>> ELSE << >>)
    \o (IF step.type = Missing THEN <<Issue("missing_step_type", i, "high")>> ELSE << >>)
    \o (IF step.type = "TOOL_CALL"
        THEN (IF step.tool = Missing THEN <<Issue("missing_tool_name", i, "high")>> ELSE << >>)
             \o (IF get_tool_config(step.tool) = Missing
                 THEN <<Issue("tool_not_found", i, "high")>> ELSE << >>)
        ELSE << >>)

\* lines 180-219: for i, step in enumerate(steps)
RECURSIVE StructureIssues(_, _)
StructureIssues(steps, i) ==
    IF i > Len(steps) THEN << >>
    ELSE StepIssues(steps[i], i) \o StructureIssues(steps, i + 1)

\* lines 158-246
validate_execution_plan(steps) ==
    IF steps = << >>
    THEN [is_valid |-> FALSE, issues |-> <<Issue("empty_plan", 0, "high")>>, warnings |-> << >>]
    ELSE LET issues == StructureIssues(steps, 1)
                       \o (IF has_circular_dependency(steps)
                           THEN <<Issue("circular_dependency", 0, "critical")>> ELSE << >>)
         IN [is_valid |-> issues = << >>,
             issues |-> issues,
             warnings |-> IF Len(steps) > ComplexPlanSteps THEN <<"complex_plan">> ELSE << >>]

NotValidated == [is_valid |-> FALSE, issues |-> << >>, warnings |-> << >>]

\* lines 201-211: the registry after the lookups one validation makes, one
\* per TOOL_CALL step of a non-empty plan
RECURSIVE RegistryAfterLookups(_, _, _)
RegistryAfterLookups(tools, steps, i) ==
    IF i > Len(steps) THEN tools
    ELSE RegistryAfterLookups(
             IF steps[i].type = "TOOL_CALL" THEN ToolsAfterLookup(tools, steps[i].tool) ELSE tools,
             steps, i + 1)

(***************************************************************************)
(* Step parameters and step results.  A parameter value is a string (its   *)
(* characters), or an object put there by dependency resolution; values    *)
(* are tagged with their kind.  A tool's output dict is named by a token.  *)
(***************************************************************************)
Str(chars) == [kind |-> "str", v |-> chars]
ToolOutput(o) == [kind |-> "tool_output", v |-> o]
StepResultValue(r) == [kind |-> "step_result", v |-> r]

\* the characters of a step id, and of the reference "{{id}}"
IdText(id) == <<id>>
Placeholder(id) == <<"{", "{">> \o IdText(id) \o <<"}", "}">>

\* outputs a tool function can return: {"v": 42}, {"status": "success", "v": 7}
\* and {"status": "error"}; result.get("status", "success") of each
ToolOutputs == {"v42", "ok7", "err"}
OutputStatus(o) == IF o = "err" THEN "error" ELSE "success"
\* what a tool call does: return one of the outputs, or raise
ToolOutcomes == ToolOutputs \cup {"raise"}

\* str.startswith / str.endswith / value[2:-2]
StartsWith(chars, prefix) ==
    Len(chars) >= Len(prefix) /\ SubSeq(chars, 1, Len(prefix)) = prefix
EndsWith(chars, suffix) ==
    Len(chars) >= Len(suffix) /\ SubSeq(chars, Len(chars) - Len(suffix) + 1, Len(chars)) = suffix
Slice2(chars) == SubSeq(chars, 3, Len(chars) - 2)

\* the value a resolved reference gets (line 464): previous_outputs[step_id]
ReferencedValue(previous_outputs, id) == StepResultValue(previous_outputs[id])

\* lines 460-470, for one value
ResolveValue(value, previous_outputs) ==
    IF value.kind = "str" /\ StartsWith(value.v, <<"{", "{">>) /\ EndsWith(value.v, <<"}", "}">>)
    THEN LET step_id == Slice2(value.v)
         IN IF \E id \in DOMAIN previous_outputs : IdText(id) = step_id
            THEN ReferencedValue(previous_outputs,
                                 CHOOSE id \in DOMAIN previous_outputs : IdText(id) = step_id)
            ELSE value
    ELSE value

\* lines 454-472
resolve_parameter_dependencies(parameters, previous_outputs) ==
    [key \in DOMAIN parameters |-> ResolveValue(parameters[key], previous_outputs)]

\* the dict a step produces; keys a result does not carry are Missing
StepResult(step_id, status, tool, parameters, output, step_type, error) ==
    [step_id |-> step_id, status |-> status, tool |-> tool, parameters |-> parameters,
     result |-> output, output |-> output, step_type |-> step_type, error |-> error]

\* lines 393-400
ErrorResult(step, error) ==
    StepResult(step.id, "error", Missing, << >>, Missing, step.type, error)

\* lines 402-436; outcome is what the tool function does when it is called
execute_tool_step(step, previous_outputs, outcome) ==
    IF get_tool_config(step.tool) = Missing THEN ErrorResult(step, "Tool not found")
    ELSE LET resolved == resolve_parameter_dependencies(step.params, previous_outputs)
         IN IF outcome = "raise" THEN ErrorResult(step, "tool raised")
            ELSE StepResult(step.id, OutputStatus(outcome), step.tool, resolved, outcome,
                            "TOOL_CALL", Missing)

\* lines 438-452
execute_direct_answer_step(step) ==
    StepResult(step.id, "completed", Missing, << >>, "direct_answer_message", "DIRECT_ANSWER", Missing)

\* lines 378-400
execute_step(step, previous_outputs, outcome) ==
    IF step.type = "TOOL_CALL" THEN execute_tool_step(step, previous_outputs, outcome)
    ELSE IF step.type = "DIRECT_ANSWER" THEN execute_direct_answer_step(step)
    ELSE ErrorResult(step, "Unknown step type")

\* whether _execute_step reaches the call of the tool function (line 426)
CallsTool(step) == step.type = "TOOL_CALL" /\ get_tool_config(step.tool) # Missing

\* step lists handed to the step loop: parameters carry literals and references
ParamTexts == {<<"l", "i", "t">>, Placeholder("A"), Placeholder("B"),
               <<"{", "{", "}", "}">>, <<"{", "{", "A", "}">>}
ParamMaps == {NoParams} \cup {[x |-> Str(t)] : t \in ParamTexts}
LoopKinds == {<<"TOOL_CALL", "calc">>, <<"TOOL_CALL", "ghost">>, <<"DIRECT_ANSWER", Missing>>,
              <<"OTHER", Missing>>}
LoopSteps == {[id |-> i, type |-> k[1], tool |-> k[2], deps |-> << >>, params |-> p] :
                 i \in {"A", "B"}, k \in LoopKinds, p \in ParamMaps}
LoopPlans == BoundedSeq(LoopSteps, MaxShapeSteps)

(***************************************************************************)
(* observability: the attributes a MetricCollector instance has, and the   *)
(* labels argument observe_operation receives from execute_plan            *)
(***************************************************************************)
MetricCollectorAttributes ==
    {"metrics", "counters", "gauges", "histograms",
     "record_counter", "record_gauge", "record_histogram", "_make_key"}
\* observability_manager.metric_collector.metric_type evaluates without error
MetricTypeResolves == "metric_type" \in MetricCollectorAttributes
\* @observe_operation("executor.execute_plan", TraceLevel.HIGH): the second
\* positional parameter is labels, and _make_key calls labels.items()
ExecutePlanSpanLabels == "TraceLevel.HIGH"
LabelsHaveItems(labels) == labels \in {"dict"}

(***************************************************************************)
(* Planner and Critic values.  A plan value is a dict (intent, steps,      *)
(* generation meta-data), None, or a JSON value that is not a dict.  A     *)
(* score is a number or a JSON value that does not compare with a number.  *)
(***************************************************************************)
DefaultMaxCritiqueIterations == 2
DefaultCritiqueThreshold == 7
FallbackScore == 7

PlanDict(intent, steps, meta) == [kind |-> "dict", intent |-> intent, steps |-> steps, meta |-> meta]
NonePlan == [kind |-> "none", intent |-> Missing, steps |-> Missing, meta |-> Missing]
NonDictPlan == [kind |-> "nondict", intent |-> Missing, steps |-> Missing, meta |-> Missing]
PlanDicts == {PlanDict(i, st, m) : i \in {"execute_plan", "direct_answer"},
                                   st \in {"steps0", "steps1"}, m \in {"generated", "bare"}}
PlanValues == PlanDicts \cup {NonePlan, NonDictPlan}

Num(n) == [num |-> TRUE, val |-> n]
NonNumber == [num |-> FALSE, val |-> 0]
Scores == {Num(0), Num(7), Num(9), NonNumber}

\* what the model call of the critic yields: a failed call, text that is not
\* JSON, JSON that is not an object, or an object with a score and a plan
LLMResponses ==
    {[kind |-> k, overall_score |-> Num(0), is_plan_valid |-> FALSE, improved_plan |-> NonePlan] :
         k \in {"call_error", "not_json", "json_nondict"}}
    \cup {[kind |-> "json_dict", overall_score |-> sc, is_plan_valid |-> v, improved_plan |-> ip] :
              sc \in Scores, v \in BOOLEAN, ip \in PlanValues}

\* critic.py 210-236
fallback_critique(plan_value) ==
    [overall_score |-> Num(FallbackScore), is_plan_valid |-> TRUE, improved_plan |-> plan_value,
     critique_error |-> TRUE]

\* critic.py 41-103 and 119-124: the names str.format looks up in the
\* critique prompt (its JSON example is written with single braces, so its
\* first brace group is a field too), and the keyword arguments it is given
CritiquePromptFields ==
    {"json_example", "available_tools_context", "user_query", "user_memory", "plan_to_review"}
CritiqueFormatArguments ==
    {"available_tools_context", "user_query", "user_memory", "plan_to_review"}
\* self.critique_prompt.format(...) returns instead of raising KeyError
CritiquePromptFormats == CritiquePromptFields \subseteq CritiqueFormatArguments

\* critic.py 105-154: a KeyError of format, a failed model call, json.loads
\* of a non-object (.get fails) and _estimate_plan_quality of a plan that is
\* not a dict (.get fails) all end in the outer handler
critique_plan(plan_value, response) ==
    IF ~CritiquePromptFormats \/ response.kind # "json_dict" \/ plan_value.kind # "dict"
    THEN fallback_critique(plan_value)
    ELSE [overall_score |-> response.overall_score, is_plan_valid |-> response.is_plan_valid,
          improved_plan |-> response.improved_plan, critique_error |-> FALSE]

\* planner.py 335-341: the call goes through the module-level name `critic`;
\* it is the Critic above, or a stub bound to that name that returns any
\* critique dict
\* critique dict (the loop reads overall_score and improved_plan only, so the
\* stub's is_plan_valid is given one value)
StubCritiques ==
    [overall_score : Scores, is_plan_valid : {FALSE}, improved_plan : PlanValues,
     critique_error : {FALSE}]
Critiques(plan_value) ==
    {critique_plan(plan_value, response) : response \in LLMResponses} \cup StubCritiques

\* planner.py 330: while iteration < self.max_critique_iterations
LoopGuardOffByOne(iteration, max_iterations) == iteration <= max_iterations
LoopGuard(iteration, max_iterations) == iteration < max_iterations

\* planner.py 347: overall_score >= self.critique_threshold
AcceptableScoreStrict(overall_score, threshold) == overall_score > threshold
AcceptableScore(overall_score, threshold) == overall_score >= threshold

\* planner.py 353: improved_plan and improved_plan != current_plan
OffersImprovementAnyPlan(improved_plan, current_plan) == improved_plan.kind # "none"
OffersImprovement(improved_plan, current_plan) ==
    /\ improved_plan.kind # "none"
    /\ improved_plan # current_plan

\* the plan object a caller holds: its value and the keys added to it
PlanObject(value) ==
    [plan |-> value, keys |-> {}, self_correction_applied |-> FALSE, critique_iterations |-> 0,
     final_score |-> 0, critique_history |-> << >>]

SelfCorrectionKeys ==
    {"self_correction_applied", "critique_iterations", "final_score", "critique_history",
     "self_correction_enabled"}

\* planner.py 361-367: current_plan.update({...})
WithSelfCorrection(value, iteration, final_score, history) ==
    [plan |-> value, keys |-> SelfCorrectionKeys, self_correction_applied |-> TRUE,
     critique_iterations |-> iteration, final_score |-> final_score, critique_history |-> history]

\* planner.py 375-376: plan["self_correction_error"], plan["self_correction_applied"]
WithSelfCorrectionError(obj) ==
    [obj EXCEPT !.keys = @ \cup {"self_correction_error", "self_correction_applied"},
                !.self_correction_applied = FALSE]

(***************************************************************************)
(* State                                                                   *)
(***************************************************************************)
VARIABLES
    plan,          \* the steps of the plan handed to the Executor
    pc,            \* position of the caller / of execute_plan
    validation,    \* result of _validate_execution_plan
    graph,         \* result of _build_dependency_graph
    order,         \* result of _topological_sort (execution_order)
    report,        \* what execute_plan returned, or that it raised
    validation_again, \* result of a second _validate_execution_plan call on the same plan
    results,       \* results list of the step loop
    step_outputs,  \* step_outputs dict of the step loop
    tool_calls,    \* the calls of tool functions made so far: step, parameters, outcome
    quality,       \* quality_metrics of the step loop
    max_critique_iterations,  \* Planner.max_critique_iterations
    critique_threshold,       \* Planner.critique_threshold
    sc_pc,            \* position inside Planner._apply_self_correction
    input_plan,       \* the plan object passed to _apply_self_correction
    current_plan,     \* local current_plan
    iteration,        \* local iteration
    critique_history, \* local critique_history
    critique_result,  \* local critique_result, with whether it is bound
    reviewed,         \* the plan handed to the critic at each call
    returned,         \* the plan object _apply_self_correction returned
    enable_self_correction,  \* Planner.enable_self_correction
    cp_pc,            \* position inside Planner.create_plan
    llm_plan_response,\* what the planning model call yielded
    created,          \* what create_plan returned
    quality_metrics,  \* the dict passed to _calculate_quality_score
    quality_score,    \* what _calculate_quality_score returned
    agent_status,     \* SubAgent.status of each agent
    agent_history,    \* SubAgent.execution_history of each agent
    agent_log,        \* every execute that has returned, per agent: task and result
    top,              \* the execute call a caller has made, and whether it has returned
    children,         \* the child executes a coordinating execute has created
    last_result,      \* what the caller's last execute call returned
    calls_left,       \* how many more execute calls the caller makes
    call_targets,     \* the agents the caller calls
    coordination_agents, \* the "agents" list of the caller's agent_coordination tasks
    manager_agents,   \* HierarchicalToolManager.agents: the registered agent ids
    tool_hierarchies, \* HierarchicalToolManager.tool_hierarchies: name -> root and children
    hier_result,      \* what execute_hierarchical_task returned
    agent_powered_tools, \* ToolRegistry.agent_powered_tools: tool name -> agent
    htool_result,     \* what execute_hierarchical_tool returned
    htool_calls,      \* the execute calls execute_hierarchical_tool made: agent and task
    tool_configs,     \* ToolRegistry.tools: tool name -> the config stored for it
    tool_functions,   \* ToolRegistry.functions: function name -> callable
    registrations,    \* every registration call made, in order: kind, name, config
    lookup,           \* the last get_tool_config call: name and return value
    optimization,     \* an optimize_tool_selection call: inputs and return value
    memory_call,      \* a call of _apply_dynamic_memory_enhancement: inputs and return value
    iter_call,        \* a run of ExecutorAgent._iterative_execution
    credit_db,        \* the rows of the credit tables
    redeem_call,      \* the last redeem_credit_code call and the rows before it
    payment_call      \* the last complete_payment call and the rows before it

execVars == <<plan, pc, validation, graph, order, report, registry_tools, validation_again>>
loopVars == <<results, step_outputs, tool_calls, quality>>
planVars == <<max_critique_iterations, critique_threshold, sc_pc, input_plan, current_plan,
              iteration, critique_history, critique_result, reviewed, returned>>
createVars == <<enable_self_correction, cp_pc, llm_plan_response, created>>
qualityVars == <<quality_metrics, quality_score>>
agentVars == <<agent_status, agent_history, agent_log, top, children, last_result, calls_left,
               call_targets, coordination_agents>>
hierVars == <<manager_agents, tool_hierarchies, hier_result, agent_powered_tools, htool_result,
              htool_calls>>
registryVars == <<tool_configs, tool_functions, registrations, lookup, optimization>>
memoryVars == <<memory_call>>
iterVars == <<iter_call>>
creditVars == <<credit_db, redeem_call, payment_call>>
afterIterVars == <<creditVars>>
afterMemoryVars == <<iterVars, afterIterVars>>
afterRegistryVars == <<memoryVars, afterMemoryVars>>
afterHierVars == <<registryVars, afterRegistryVars>>
afterAgentVars == <<hierVars, afterHierVars>>
afterQualityVars == <<agentVars, afterAgentVars>>
afterCreateVars == <<qualityVars, afterQualityVars>>
otherVars == <<createVars, afterCreateVars>>
vars == <<plan, pc, validation, graph, order, report, registry_tools, validation_again, results, step_outputs, tool_calls, quality,
          max_critique_iterations, critique_threshold, sc_pc, input_plan, current_plan,
          iteration, critique_history, critique_result, reviewed, returned,
          enable_self_correction, cp_pc, llm_plan_response, created,
          quality_metrics, quality_score,
          agent_status, agent_history, agent_log, top, children, last_result, calls_left,
          call_targets, coordination_agents,
          manager_agents, tool_hierarchies, hier_result, agent_powered_tools, htool_result,
          htool_calls, registryVars, memoryVars, iterVars, creditVars>>

NoReport == [raised |-> FALSE, status |-> Missing, results |-> << >>]
NoQuality == [steps_completed |-> 0, steps_failed |-> 0]

InitLoopVars ==
    /\ results = << >>
    /\ step_outputs = << >>
    /\ tool_calls = << >>
    /\ quality = NoQuality

Unbound == [bound |-> FALSE, overall_score |-> Num(0), improved_plan |-> NonePlan,
            critique_error |-> FALSE]
Bound(c) == [bound |-> TRUE, overall_score |-> c.overall_score,
             improved_plan |-> c.improved_plan, critique_error |-> c.critique_error]

InitPlanVars ==
    /\ max_critique_iterations = DefaultMaxCritiqueIterations
    /\ critique_threshold = DefaultCritiqueThreshold
    /\ sc_pc = "idle"
    /\ input_plan = PlanObject(PlanDict("execute_plan", "steps0", "generated"))
    /\ current_plan = NonePlan
    /\ iteration = 0
    /\ critique_history = << >>
    /\ critique_result = Unbound
    /\ reviewed = << >>
    /\ returned = PlanObject(NonePlan)

NoPlanResponse == [kind |-> "none", intent |-> Missing, steps |-> Missing]
NotCreated == [raised |-> FALSE, obj |-> PlanObject(NonePlan)]

InitCreateVars ==
    /\ enable_self_correction = TRUE
    /\ cp_pc = "idle"
    /\ llm_plan_response = NoPlanResponse
    /\ created = NotCreated

\* a score as an exact fraction num/den of the float the code computes
Rat(n, d) == [num |-> n, den |-> d]
NoMetrics == [steps_completed |-> 0, steps_failed |-> 0, total_execution_time |-> 0]
NoScore == [returned |-> FALSE, value |-> Rat(0, 1)]

InitQualityVars ==
    /\ quality_metrics = NoMetrics
    /\ quality_score = NoScore

\* sub_agents.py 583-598: a specialist, an executor agent and a coordinator
AgentIds == {"spec_1", "exec_1", "coord_1"}
UnknownAgentId == "nobody"
AgentKind(a) == CASE a = "spec_1" -> "specialist" [] a = "exec_1" -> "executor"
                  [] a = "coord_1" -> "coordinator" [] OTHER -> Missing

\* a task: a dict with a type (and, for a coordinator, a strategy), or a
\* value that is not a dict; tag tells the caller's tasks apart
Task(shape, type, strategy, tag) == [shape |-> shape, type |-> type, strategy |-> strategy, tag |-> tag]
NoTask == Task("none", Missing, Missing, 0)
\* a result dict: its status key, agent_id, the kind of work, child results
Result(status, agent_id, kind, child_results) ==
    [status |-> status, agent_id |-> agent_id, kind |-> kind, results |-> child_results]
NoResult == Result(Missing, Missing, "none", << >>)
NoTop == [phase |-> "idle", agent |-> Missing, task |-> NoTask]

InitAgentVars ==
    /\ agent_status = [a \in AgentIds |-> "idle"]
    /\ agent_history = [a \in AgentIds |-> << >>]
    /\ agent_log = [a \in AgentIds |-> << >>]
    /\ top = NoTop
    /\ children = << >>
    /\ last_result = NoResult
    /\ calls_left = 0
    /\ call_targets = {}
    /\ coordination_agents = << >>

NoHierResult == [returned |-> FALSE]
NoToolResult == [returned |-> FALSE]
InitHierVars ==
    /\ manager_agents = {}
    /\ tool_hierarchies = << >>
    /\ hier_result = NoHierResult
    /\ agent_powered_tools = << >>
    /\ htool_result = NoToolResult
    /\ htool_calls = << >>

\* the config under which the built-in tools are loaded
BuiltinConfig == [version |-> "v0", function_name |-> "builtin_fn"]
\* self.tools.get returning None
NoConfig == [version |-> Missing, function_name |-> Missing]
NoLookup == [name |-> Missing, value |-> NoConfig]
InitRegistryVars ==
    /\ tool_configs = [n \in RegisteredTools |-> BuiltinConfig]
    /\ tool_functions = [f \in {"builtin_fn"} |-> "builtin_fn"]
    /\ registrations = << >>
    /\ lookup = NoLookup
    /\ optimization = [returned |-> FALSE]
InitMemoryVars == memory_call = [returned |-> FALSE]
NoIterState == [is_dict |-> TRUE, items |-> {}, atom |-> Missing]
InitIterVars ==
    iter_call = [pc |-> "idle", iterations |-> 0, initial_state |-> NoIterState,
                 current_state |-> NoIterState, target_state |-> NoIterState,
                 converged |-> FALSE]
NoRedeemCall == [returned |-> FALSE, count |-> 0]
NoPaymentCall == [returned |-> FALSE, count |-> 0]
InitCreditVars ==
    /\ credit_db = [balance |-> << >>, codes |-> << >>, transactions |-> << >>,
                    payments |-> << >>]
    /\ redeem_call = NoRedeemCall
    /\ payment_call = NoPaymentCall
InitAfterIterVars == InitCreditVars
InitAfterMemoryVars == InitIterVars /\ InitAfterIterVars
InitAfterRegistryVars == InitMemoryVars /\ InitAfterMemoryVars
InitAfterHierVars == InitRegistryVars /\ InitAfterRegistryVars
InitAfterAgentVars == InitHierVars /\ InitAfterHierVars
InitAfterQualityVars == InitAgentVars /\ InitAfterAgentVars
InitAfterCreateVars == InitQualityVars /\ InitAfterQualityVars

InitOtherVars == InitCreateVars /\ InitAfterCreateVars

InitExecVars ==
    /\ pc = "start"
    /\ validation = NotValidated
    /\ graph = EmptyGraph
    /\ order = << >>
    /\ report = NoReport
    /\ registry_tools = RegisteredTools
    /\ validation_again = NotValidated

(***************************************************************************)
(* Executor: a caller validates a plan, builds its graph and orders it     *)
(* (the calls execute_plan makes at lines 39-62, also made directly), or   *)
(* calls execute_plan.                                                     *)
(***************************************************************************)
InitExecutor ==
    /\ plan \in OrderPlans \cup WidePlans \cup ShapePlans
    /\ InitExecVars
    /\ InitLoopVars
    /\ InitPlanVars
    /\ InitOtherVars

\* await self._validate_execution_plan(plan)
ValidateExecutionPlan ==
    /\ pc = "start"
    /\ validation' = validate_execution_plan(plan)
    /\ registry_tools' = RegistryAfterLookups(registry_tools, plan, 1)
    /\ pc' = "validated"
    /\ UNCHANGED <<plan, graph, order, report, validation_again>>
    /\ UNCHANGED loopVars
    /\ UNCHANGED planVars
    /\ UNCHANGED otherVars

\* the caller validates the same plan a second time
ValidateExecutionPlanAgain ==
    /\ pc = "validated"
    /\ validation_again' = validate_execution_plan(plan)
    /\ registry_tools' = RegistryAfterLookups(registry_tools, plan, 1)
    /\ pc' = "validated_twice"
    /\ UNCHANGED <<plan, validation, graph, order, report>>
    /\ UNCHANGED loopVars
    /\ UNCHANGED planVars
    /\ UNCHANGED otherVars

\* self._build_dependency_graph(steps), on steps that carry an id
BuildDependencyGraph ==
    /\ pc \in {"start", "validated"}
    /\ \A i \in DOMAIN plan : plan[i].id # Missing
    /\ graph' = build_dependency_graph(plan)
    /\ pc' = "graph_built"
    /\ UNCHANGED <<plan, validation, order, report, registry_tools, validation_again>>
    /\ UNCHANGED loopVars
    /\ UNCHANGED planVars
    /\ UNCHANGED otherVars

\* self._topological_sort(dependency_graph)
TopologicalSort ==
    /\ pc = "graph_built"
    /\ \E perm \in Perms(AllSteps(graph)) : order' = topological_sort(graph, perm)
    /\ pc' = "ordered"
    /\ UNCHANGED <<plan, validation, graph, report, registry_tools, validation_again>>
    /\ UNCHANGED loopVars
    /\ UNCHANGED planVars
    /\ UNCHANGED otherVars

\* execute_plan is called: the observe_operation wrapper opens a span and the
\* body enters its try block (executor.py 15-21, observability.py 590-596)
ExecutePlanCall ==
    /\ pc = "start"
    /\ pc' = "ep_try"
    /\ UNCHANGED <<plan, validation, graph, order, report, registry_tools, validation_again>>
    /\ UNCHANGED loopVars
    /\ UNCHANGED planVars
    /\ UNCHANGED otherVars

\* lines 24-28: the arguments of record_metric are evaluated; the attribute
\* lookup metric_collector.metric_type raises AttributeError
ExecutePlanRecordMetric ==
    /\ pc = "ep_try"
    /\ ~MetricTypeResolves
    /\ pc' = "ep_except"
    /\ UNCHANGED <<plan, validation, graph, order, report, registry_tools, validation_again>>
    /\ UNCHANGED loopVars
    /\ UNCHANGED planVars
    /\ UNCHANGED otherVars

\* lines 139-147: the handler evaluates the same attribute lookup before it
\* can build the {"status": "error"} report, and raises out of the body
ExecutePlanExcept ==
    /\ pc = "ep_except"
    /\ ~MetricTypeResolves
    /\ pc' = "ep_unwind"
    /\ UNCHANGED <<plan, validation, graph, order, report, registry_tools, validation_again>>
    /\ UNCHANGED loopVars
    /\ UNCHANGED planVars
    /\ UNCHANGED otherVars

\* observability.py 507-516: trace_operation re-raises, and its finally clause
\* raises again in _make_key; execute_plan ends with an exception
ExecutePlanUnwind ==
    /\ pc = "ep_unwind"
    /\ ~LabelsHaveItems(ExecutePlanSpanLabels)
    /\ pc' = "ep_raised"
    /\ report' = [raised |-> TRUE, status |-> Missing, results |-> << >>]
    /\ UNCHANGED <<plan, validation, graph, order, registry_tools, validation_again>>
    /\ UNCHANGED loopVars
    /\ UNCHANGED planVars
    /\ UNCHANGED otherVars

NextExecutor ==
    \/ ValidateExecutionPlan
    \/ ValidateExecutionPlanAgain
    \/ BuildDependencyGraph
    \/ TopologicalSort
    \/ ExecutePlanCall
    \/ ExecutePlanRecordMetric
    \/ ExecutePlanExcept
    \/ ExecutePlanUnwind

SpecExecutor == InitExecutor /\ [][NextExecutor]_vars

(***************************************************************************)
(* Step execution: _execute_step is called on the steps of an ordered      *)
(* list, one after another; each result is appended and stored under the   *)
(* step's id the way the body of execute_plan's loop does (lines 84-94),   *)
(* and the loop's else clause (103-104) follows the last step.  The loop's *)
(* metric call (96-101) evaluates the attribute lookup that execute_plan's *)
(* first statement fails on (SpecExecutor), so execute_plan itself does    *)
(* not get to this loop; here the steps are driven by a direct caller.     *)
(***************************************************************************)
InitStepLoop ==
    /\ plan \in LoopPlans
    /\ InitExecVars
    /\ InitLoopVars
    /\ InitPlanVars
    /\ InitOtherVars

\* lines 84-94 for the next step of the list
ExecuteStep ==
    /\ pc = "start"
    /\ Len(results) < Len(plan)
    /\ LET step == plan[Len(results) + 1]
       IN \E outcome \in ToolOutcomes :
            LET step_result == execute_step(step, step_outputs, outcome)
            IN /\ results' = Append(results, step_result)
               /\ quality' = IF step_result.status = "success"
                             THEN [quality EXCEPT !.steps_completed = @ + 1]
                             ELSE quality
               /\ step_outputs' = [id \in DOMAIN step_outputs \cup {step.id} |->
                                     IF id = step.id THEN step_result ELSE step_outputs[id]]
               /\ tool_calls' = IF CallsTool(step)
                                THEN Append(tool_calls,
                                       [index |-> Len(results) + 1,
                                        step_id |-> step.id,
                                        parameters |-> resolve_parameter_dependencies(step.params, step_outputs),
                                        outcome |-> outcome])
                                ELSE tool_calls
    /\ UNCHANGED execVars
    /\ UNCHANGED planVars
    /\ UNCHANGED otherVars

\* lines 103-104: the else clause of the for loop, once the list is exhausted
FinishStepLoop ==
    /\ pc = "start"
    /\ Len(results) = Len(plan)
    /\ quality' = [quality EXCEPT !.steps_failed = @ + 1]
    /\ pc' = "loop_done"
    /\ UNCHANGED <<plan, validation, graph, order, report, registry_tools, validation_again,
                   results, step_outputs, tool_calls>>
    /\ UNCHANGED planVars
    /\ UNCHANGED otherVars

NextStepLoop == ExecuteStep \/ FinishStepLoop

SpecStepLoop == InitStepLoop /\ [][NextStepLoop]_vars

(***************************************************************************)
(* Planner._apply_self_correction (planner.py 316-377) on an execute_plan  *)
(* plan, with the Planner's two settings chosen by its owner.              *)
(***************************************************************************)
Thresholds == {0, 7, 8}

InitSelfCorrection ==
    /\ plan = << >>
    /\ InitExecVars
    /\ InitLoopVars
    /\ max_critique_iterations \in 0..MaxIter
    /\ critique_threshold \in Thresholds
    /\ sc_pc = "idle"
    /\ input_plan \in {PlanObject(PlanDict("execute_plan", st, "generated")) : st \in {"steps0", "steps1"}}
    /\ current_plan = NonePlan
    /\ iteration = 0
    /\ critique_history = << >>
    /\ critique_result = Unbound
    /\ reviewed = << >>
    /\ returned = PlanObject(NonePlan)
    /\ InitOtherVars

\* lines 326-328
StartSelfCorrection ==
    /\ sc_pc = "idle"
    /\ current_plan' = input_plan.plan
    /\ iteration' = 0
    /\ critique_history' = << >>
    /\ sc_pc' = "loop"
    /\ UNCHANGED <<max_critique_iterations, critique_threshold, input_plan, critique_result,
                   reviewed, returned>>
    /\ UNCHANGED execVars
    /\ UNCHANGED loopVars
    /\ UNCHANGED otherVars

\* lines 330-358: one pass of the loop, with the critic's model call
CritiqueIteration ==
    /\ sc_pc = "loop"
    /\ LoopGuard(iteration, max_critique_iterations)
    /\ iteration' = iteration + 1
    /\ \E critique \in Critiques(current_plan) :
            /\ critique_result' = Bound(critique)
            /\ critique_history' = Append(critique_history, critique)
            /\ reviewed' = Append(reviewed, current_plan)
            /\ IF ~critique.overall_score.num
               THEN \* TypeError at line 347
                    /\ sc_pc' = "except"
                    /\ UNCHANGED current_plan
               ELSE IF AcceptableScore(critique.overall_score.val, critique_threshold)
               THEN /\ sc_pc' = "after_loop"
                    /\ UNCHANGED current_plan
               ELSE IF OffersImprovement(critique.improved_plan, current_plan)
               THEN /\ current_plan' = critique.improved_plan
                    /\ sc_pc' = "loop"
               ELSE /\ sc_pc' = "after_loop"
                    /\ UNCHANGED current_plan
    /\ UNCHANGED <<max_critique_iterations, critique_threshold, input_plan, returned>>
    /\ UNCHANGED execVars
    /\ UNCHANGED loopVars
    /\ UNCHANGED otherVars

\* line 330: the loop condition is false
ExitLoop ==
    /\ sc_pc = "loop"
    /\ ~LoopGuard(iteration, max_critique_iterations)
    /\ sc_pc' = "after_loop"
    /\ UNCHANGED <<max_critique_iterations, critique_threshold, input_plan, current_plan,
                   iteration, critique_history, critique_result, reviewed, returned>>
    /\ UNCHANGED execVars
    /\ UNCHANGED loopVars
    /\ UNCHANGED otherVars

\* lines 360-370: reading critique_result when no pass assigned it raises
\* UnboundLocalError; update() on a plan that is not a dict raises
\* AttributeError
AttachMetadata ==
    /\ sc_pc = "after_loop"
    /\ IF ~critique_result.bound \/ current_plan.kind # "dict"
       THEN /\ sc_pc' = "except"
            /\ UNCHANGED returned
       ELSE /\ returned' = WithSelfCorrection(current_plan, iteration,
                                              critique_result.overall_score.val, critique_history)
            /\ sc_pc' = "done"
    /\ UNCHANGED <<max_critique_iterations, critique_threshold, input_plan, current_plan,
                   iteration, critique_history, critique_result, reviewed>>
    /\ UNCHANGED execVars
    /\ UNCHANGED loopVars
    /\ UNCHANGED otherVars

\* lines 372-377: the handler marks the plan it was given and returns it
SelfCorrectionError ==
    /\ sc_pc = "except"
    /\ input_plan' = WithSelfCorrectionError(input_plan)
    /\ returned' = WithSelfCorrectionError(input_plan)
    /\ sc_pc' = "done"
    /\ UNCHANGED <<max_critique_iterations, critique_threshold, current_plan,
                   iteration, critique_history, critique_result, reviewed>>
    /\ UNCHANGED execVars
    /\ UNCHANGED loopVars
    /\ UNCHANGED otherVars

NextSelfCorrection ==
    \/ StartSelfCorrection
    \/ CritiqueIteration
    \/ ExitLoop
    \/ AttachMetadata
    \/ SelfCorrectionError

SpecSelfCorrection == InitSelfCorrection /\ [][NextSelfCorrection]_vars

(***************************************************************************)
(* Vocabulary of the properties                                            *)
(***************************************************************************)
\* the dependency edges of a plan: <<s, d>> when a step with id s lists d
EdgesOf(steps) == {e \in StepIdsOf(steps) \X StepIds :
                      \E i \in DOMAIN steps : steps[i].id = e[1] /\ Contains(steps[i].deps, e[2])}

RECURSIVE ReachableIn(_, _, _)
ReachableIn(E, S, k) ==
    IF k = 0 THEN S
    ELSE ReachableIn(E, S \cup {e[2] : e \in {x \in E : x[1] \in S}}, k - 1)
\* the ids reached from n along one or more dependency edges
DependenciesOf(E, n) == ReachableIn(E, {e[2] : e \in {x \in E : x[1] = n}}, Cardinality(StepIds))

Cyclic(steps) == \E n \in StepIdsOf(steps) : n \in DependenciesOf(EdgesOf(steps), n)
DependenciesClosed(steps) == \A e \in EdgesOf(steps) : e[2] \in StepIdsOf(steps)

\* every step of the plan is listed in ord after the steps it depends on
RespectsDependencies(ord, steps) ==
    \A e \in EdgesOf(steps) :
        e[2] \in StepIdsOf(steps) =>
            \A p \in DOMAIN ord : ord[p] = e[1] => \E q \in 1..(p - 1) : ord[q] = e[2]

ListsEachOnce(ord, ids) ==
    /\ Range(ord) = ids
    /\ Len(ord) = Cardinality(ids)

HasIssue(v, t) == \E k \in DOMAIN v.issues : v.issues[k].type = t
Validated == validation # NotValidated
ExecutePlanEnded == pc \in {"ep_raised", "ep_returned"}

\* the conditions under which a plan is to be rejected before execution
MustFailValidation(steps) ==
    \/ steps = << >>
    \/ \E i \in DOMAIN steps : steps[i].id = Missing \/ steps[i].type = Missing
    \/ \E i \in DOMAIN steps : steps[i].type = "TOOL_CALL" /\ steps[i].tool \notin RegisteredTools
    \/ Cyclic(steps)

(***************************************************************************)
(* C1: for a plan with unique step ids whose dependencies name steps of    *)
(* the plan and form a DAG, in whatever order its steps are listed, the    *)
(* graph construction followed by the topological sort yields every step   *)
(* id exactly once, each step after all the steps it depends on.           *)
(***************************************************************************)
C1_TopologicalOrderOfDag ==
    (pc = "ordered" /\ UniqueIds(plan) /\ DependenciesClosed(plan) /\ ~Cyclic(plan))
        => (ListsEachOnce(order, StepIdsOf(plan)) /\ RespectsDependencies(order, plan))

(***************************************************************************)
(* C2: execute_plan on a plan that passes validation ends with status      *)
(* completed and exactly one result per step of the plan.                  *)
(***************************************************************************)
C2_ValidPlanCompletes ==
    (ExecutePlanEnded /\ validate_execution_plan(plan).is_valid)
        => /\ ~report.raised
           /\ report.status = "completed"
           /\ Len(report.results) = Len(plan)
           /\ \A i \in DOMAIN plan :
                Cardinality({k \in DOMAIN report.results : report.results[k].step_id = plan[i].id}) = 1

C5_InvalidPlanFailsValidation ==
    (ExecutePlanEnded /\ MustFailValidation(plan))
        => /\ ~report.raised
           /\ report.status = "validation_failed"
           /\ report.results = << >>

(***************************************************************************)
(* C6: for a plan with a TOOL_CALL step that names an unregistered tool,   *)
(* execute_plan does not raise and its report has a result with status     *)
(* error for that step.                                                    *)
(***************************************************************************)
C6_UnknownToolBecomesStepError ==
    \A i \in DOMAIN plan :
        (ExecutePlanEnded /\ plan[i].type = "TOOL_CALL" /\ plan[i].tool \in UnregisteredTools)
            => /\ ~report.raised
               /\ \E k \in DOMAIN report.results :
                     /\ report.results[k].step_id = plan[i].id
                     /\ report.results[k].status = "error"

(***************************************************************************)
(* C7: when a tool is called for a step whose parameter x is the text      *)
(* "{{s1}}" and a step s1 has run before and its tool returned an output,  *)
(* the tool receives that output object as the value of x.                 *)
(***************************************************************************)
\* the position of the latest step with this id among the first n steps
LatestBefore(id, n) == CHOOSE j \in 1..n : plan[j].id = id /\ \A k \in (j + 1)..n : plan[k].id # id

SelfCorrectionDone == sc_pc = "done"
EveryScoreZero ==
    \A k \in DOMAIN critique_history :
        critique_history[k].overall_score.num /\ critique_history[k].overall_score.val = 0

C8_Original_ZeroScoreRunsToCap ==
    (/\ SelfCorrectionDone
     /\ max_critique_iterations >= 1
     /\ critique_threshold > 0
     /\ EveryScoreZero)
        => /\ Len(critique_history) = max_critique_iterations
           /\ "critique_iterations" \in returned.keys
           /\ returned.critique_iterations = max_critique_iterations

(***************************************************************************)
(* C8 amended: with a threshold above 0, max_critique_iterations >= 1 and  *)
(* a critic that on every call returns overall_score 0 together with an    *)
(* improved_plan that is a plan dict different from the plan it reviewed,  *)
(* the loop makes exactly max_critique_iterations critic calls and the     *)
(* returned plan has critique_iterations = max_critique_iterations.        *)
(***************************************************************************)
EveryCritiqueOffersNewPlan ==
    \A k \in DOMAIN critique_history :
        /\ critique_history[k].improved_plan.kind = "dict"
        /\ critique_history[k].improved_plan # reviewed[k]

C8_ZeroScoreWithNewPlansRunsToCap ==
    (/\ SelfCorrectionDone
     /\ max_critique_iterations >= 1
     /\ critique_threshold > 0
     /\ EveryScoreZero
     /\ EveryCritiqueOffersNewPlan)
        => /\ Len(critique_history) = max_critique_iterations
           /\ "critique_iterations" \in returned.keys
           /\ returned.critique_iterations = max_critique_iterations

\* the loop has run to a cap of at least 2 on zero scores, replacing the plan each time
C8_Witness ==
    /\ SelfCorrectionDone
    /\ max_critique_iterations >= 2
    /\ critique_threshold > 0
    /\ EveryScoreZero
    /\ EveryCritiqueOffersNewPlan
    /\ Len(critique_history) = max_critique_iterations
    /\ returned.critique_iterations = max_critique_iterations

(***************************************************************************)
(* C9: when the first critique's overall_score is at or above the          *)
(* threshold, the loop ends after exactly one critic call, the returned    *)
(* plan has critique_iterations = 1 and the intent and steps of the plan   *)
(* that was passed in (the critique's improved_plan is not applied).       *)
(***************************************************************************)
FirstScoreAcceptable ==
    /\ Len(critique_history) >= 1
    /\ critique_history[1].overall_score.num
    /\ critique_history[1].overall_score.val >= critique_threshold

C9_AcceptableFirstScoreStopsLoop ==
    (SelfCorrectionDone /\ FirstScoreAcceptable)
        => /\ Len(critique_history) = 1
           /\ "critique_iterations" \in returned.keys
           /\ returned.critique_iterations = 1
           /\ returned.plan.kind = "dict"
           /\ returned.plan.intent = input_plan.plan.intent
           /\ returned.plan.steps = input_plan.plan.steps

\* the loop has ended on a first score equal to or above the threshold while
\* the critique offered a different plan
C9_Witness ==
    /\ SelfCorrectionDone
    /\ max_critique_iterations >= 2
    /\ FirstScoreAcceptable
    /\ critique_history[1].improved_plan.kind = "dict"
    /\ critique_history[1].improved_plan.steps # input_plan.plan.steps
    /\ returned.critique_iterations = 1

(***************************************************************************)
(* C10: every plan returned by the self-correction carries the fields      *)
(* self_correction_applied, critique_iterations, final_score and           *)
(* critique_history, however the loop ended, and critique_history has      *)
(* exactly critique_iterations entries.                                    *)
(***************************************************************************)
C10_ReturnedPlanCarriesMetadata ==
    SelfCorrectionDone
        => /\ {"self_correction_applied", "critique_iterations", "final_score",
               "critique_history"} \subseteq returned.keys
           /\ Len(returned.critique_history) = returned.critique_iterations

(***************************************************************************)
(* C11: critique_plan returns without raising, and whatever the model call *)
(* does (fails, returns text that is not JSON) its result is the fallback  *)
(* critique: overall_score 7.0, is_plan_valid true, improved_plan the plan *)
(* it was given, critique_error true.  For every threshold the loop stops  *)
(* at the iteration that received a fallback critique and keeps the plan   *)
(* it was reviewing; that plan is the one returned.                        *)
(***************************************************************************)
FallbackAt(k) == critique_history[k].critique_error

C11_FallbackCritiqueStopsLoop ==
    /\ sc_pc = "idle" =>
          \A plan_value \in PlanValues : \A response \in LLMResponses :
          response.kind # "json_dict" =>
              critique_plan(plan_value, response) =
                  [overall_score |-> Num(7), is_plan_valid |-> TRUE,
                   improved_plan |-> plan_value, critique_error |-> TRUE]
    /\ \A k \in DOMAIN critique_history :
          FallbackAt(k) =>
              /\ critique_history[k].overall_score = Num(7)
              /\ critique_history[k].is_plan_valid
              /\ critique_history[k].improved_plan = reviewed[k]
              /\ k = Len(critique_history)
              /\ sc_pc # "loop"
              /\ current_plan = reviewed[k]
              /\ (SelfCorrectionDone /\ current_plan.kind = "dict") =>
                     /\ returned.plan = reviewed[k]
                     /\ returned.critique_iterations = k

\* the loop has ended on a fallback critique whose score 7 is below the
\* threshold, with iterations to spare, and returned the plan it was given
C11_Witness ==
    /\ SelfCorrectionDone
    /\ critique_threshold > FallbackScore
    /\ max_critique_iterations >= 2
    /\ Len(critique_history) = 1
    /\ FallbackAt(1)
    /\ returned.plan = input_plan.plan
    /\ returned.critique_iterations = 1

(***************************************************************************)
(* Planner.create_plan (planner.py 123-157) with _generate_initial_plan    *)
(* (257-314) and, for an execute_plan intent, _apply_self_correction.      *)
(***************************************************************************)
\* what _generate_initial_plan meets before it has a plan: an error while the
\* prompt is built, a failed model call, text that is not JSON, JSON that is
\* not an object, or an object with an intent and steps
PlanResponses ==
    {[kind |-> k, intent |-> Missing, steps |-> Missing] :
         k \in {"prompt_error", "call_error", "not_json", "json_nondict"}}
    \cup {[kind |-> "json_dict", intent |-> i, steps |-> st] :
              i \in {"execute_plan", "direct_answer"}, st \in {"steps0", "steps1"}}

\* planner.py 300-309 and 148-157: intent direct_answer, steps [], fallback True
FallbackPlan == PlanDict("direct_answer", "steps_empty", "fallback")

\* planner.py 134: self.enable_self_correction and initial_plan.get("intent") == "execute_plan"
NeedsSelfCorrectionAnyIntent(enabled, intent) == enabled
NeedsSelfCorrection(enabled, intent) == enabled /\ intent = "execute_plan"

\* planner.py 141-142: the two keys set on a plan returned without self-correction
WithoutSelfCorrection(obj) ==
    [obj EXCEPT !.keys = @ \cup {"self_correction_applied", "critique_iterations"},
                !.self_correction_applied = FALSE,
                !.critique_iterations = 0]

InitCreatePlan ==
    /\ plan = << >>
    /\ InitExecVars
    /\ InitLoopVars
    /\ max_critique_iterations \in 0..MaxIter
    /\ critique_threshold \in Thresholds
    /\ sc_pc = "not_called"
    /\ input_plan = PlanObject(NonePlan)
    /\ current_plan = NonePlan
    /\ iteration = 0
    /\ critique_history = << >>
    /\ critique_result = Unbound
    /\ reviewed = << >>
    /\ returned = PlanObject(NonePlan)
    /\ enable_self_correction \in BOOLEAN
    /\ cp_pc = "idle"
    /\ llm_plan_response = NoPlanResponse
    /\ created = NotCreated
    /\ InitAfterCreateVars

\* planner.py 131 with 257-314: the model is asked for a plan; a parse
\* failure returns the fallback plan, any other failure is re-raised (312-314)
GenerateInitialPlan ==
    /\ cp_pc = "idle"
    /\ \E response \in PlanResponses :
          /\ llm_plan_response' = response
          /\ IF response.kind = "json_dict"
             THEN /\ input_plan' = PlanObject(PlanDict(response.intent, response.steps, "generated"))
                  /\ cp_pc' = "dispatch"
             ELSE IF response.kind = "not_json"
             THEN /\ input_plan' = PlanObject(FallbackPlan)
                  /\ cp_pc' = "dispatch"
             ELSE /\ cp_pc' = "except"
                  /\ UNCHANGED input_plan
    /\ UNCHANGED <<max_critique_iterations, critique_threshold, sc_pc, current_plan, iteration,
                   critique_history, critique_result, reviewed, returned>>
    /\ UNCHANGED <<enable_self_correction, created>>
    /\ UNCHANGED execVars
    /\ UNCHANGED loopVars
    /\ UNCHANGED afterCreateVars

\* planner.py 134-143: self-correction is entered, or the initial plan is
\* returned with self_correction_applied False and critique_iterations 0
CreatePlanDispatch ==
    /\ cp_pc = "dispatch"
    /\ IF NeedsSelfCorrection(enable_self_correction, input_plan.plan.intent)
       THEN /\ sc_pc' = "idle"
            /\ cp_pc' = "self_correction"
            /\ UNCHANGED <<input_plan, created>>
       ELSE /\ input_plan' = WithoutSelfCorrection(input_plan)
            /\ created' = [raised |-> FALSE, obj |-> WithoutSelfCorrection(input_plan)]
            /\ cp_pc' = "returned"
            /\ UNCHANGED sc_pc
    /\ UNCHANGED <<max_critique_iterations, critique_threshold, current_plan, iteration,
                   critique_history, critique_result, reviewed, returned>>
    /\ UNCHANGED <<enable_self_correction, llm_plan_response>>
    /\ UNCHANGED execVars
    /\ UNCHANGED loopVars
    /\ UNCHANGED afterCreateVars

\* planner.py 135-138: return final_plan
CreatePlanReturnFinal ==
    /\ cp_pc = "self_correction"
    /\ sc_pc = "done"
    /\ created' = [raised |-> FALSE, obj |-> returned]
    /\ cp_pc' = "returned"
    /\ UNCHANGED <<enable_self_correction, llm_plan_response>>
    /\ UNCHANGED planVars
    /\ UNCHANGED execVars
    /\ UNCHANGED loopVars
    /\ UNCHANGED afterCreateVars

\* planner.py 145-157: the handler returns the fallback plan
CreatePlanExcept ==
    /\ cp_pc = "except"
    /\ created' = [raised |-> FALSE, obj |-> PlanObject(FallbackPlan)]
    /\ cp_pc' = "returned"
    /\ UNCHANGED <<enable_self_correction, llm_plan_response>>
    /\ UNCHANGED planVars
    /\ UNCHANGED execVars
    /\ UNCHANGED loopVars
    /\ UNCHANGED afterCreateVars

NextCreatePlan ==
    \/ GenerateInitialPlan
    \/ CreatePlanDispatch
    \/ StartSelfCorrection
    \/ CritiqueIteration
    \/ ExitLoop
    \/ AttachMetadata
    \/ SelfCorrectionError
    \/ CreatePlanReturnFinal
    \/ CreatePlanExcept

SpecCreatePlan == InitCreatePlan /\ [][NextCreatePlan]_vars

(***************************************************************************)
(* C12: create_plan does not raise; when the planning model's text is not  *)
(* valid JSON or the model call fails, it returns a plan with intent       *)
(* direct_answer, an empty steps list and fallback true, and the critic    *)
(* has not been called.                                                    *)
(***************************************************************************)
CreatePlanReturned == cp_pc = "returned"
PlanningFailed == llm_plan_response.kind \in {"not_json", "call_error"}

C12_CreatePlanFallsBack ==
    /\ ~created.raised
    /\ (CreatePlanReturned /\ PlanningFailed) =>
          /\ created.obj.plan.kind = "dict"
          /\ created.obj.plan.intent = "direct_answer"
          /\ created.obj.plan.steps = "steps_empty"
          /\ created.obj.plan.meta = "fallback"
          /\ reviewed = << >>

\* create_plan has returned the fallback plan for text that is not JSON, with
\* self-correction enabled and critique iterations allowed
C12_Witness ==
    /\ CreatePlanReturned
    /\ llm_plan_response.kind = "not_json"
    /\ enable_self_correction
    /\ max_critique_iterations >= 1
    /\ created.obj.plan = FallbackPlan
    /\ reviewed = << >>

(***************************************************************************)
(* Executor._calculate_quality_score (executor.py 289-322) on a metrics    *)
(* dict with step counts and a total execution time.  Times are counted in *)
(* half seconds; scores are kept as exact fractions.                       *)
(***************************************************************************)
MaxCount == 10
MaxHalfSeconds == 41

QualityMetrics ==
    [steps_completed : 0..MaxCount, steps_failed : 0..MaxCount,
     total_execution_time : 0..MaxHalfSeconds]

RatLeq(a, b) == a.num * b.den <= b.num * a.den
RatEq(a, b) == a.num * b.den = b.num * a.den
RatAdd(a, b) == Rat(a.num * b.den + b.num * a.den, a.den * b.den)
RatMin(a, b) == IF RatLeq(a, b) THEN a ELSE b

\* lines 304-315: avg_time = total_time / total_steps against 1.0, 5.0, 10.0
\* (total_time in half seconds, so avg_time < 1.0 is total_time < 2 * total_steps)
TimeBonusInclusive(total_time, total_steps) ==
    IF total_time <= 2 * total_steps THEN Rat(2, 1)
    ELSE IF total_time <= 10 * total_steps THEN Rat(1, 1)
    ELSE IF total_time <= 20 * total_steps THEN Rat(1, 2)
    ELSE Rat(0, 1)
TimeBonus(total_time, total_steps) ==
    IF total_time < 2 * total_steps THEN Rat(2, 1)
    ELSE IF total_time < 10 * total_steps THEN Rat(1, 1)
    ELSE IF total_time < 20 * total_steps THEN Rat(1, 2)
    ELSE Rat(0, 1)

\* lines 289-322
calculate_quality_score(metrics) ==
    LET steps_completed == metrics.steps_completed
        steps_failed == metrics.steps_failed
        total_steps == steps_completed + steps_failed
    IN IF total_steps = 0
       THEN Rat(0, 1)
       ELSE LET base_score == Rat(steps_completed * 8, total_steps)
                time_bonus == TimeBonus(metrics.total_execution_time, total_steps)
            IN RatMin(Rat(10, 1), RatAdd(base_score, time_bonus))

InitQuality ==
    /\ plan = << >>
    /\ InitExecVars
    /\ InitLoopVars
    /\ InitPlanVars
    /\ InitCreateVars
    /\ quality_metrics \in QualityMetrics
    /\ quality_score = NoScore
    /\ InitAfterQualityVars

CalculateQualityScore ==
    /\ ~quality_score.returned
    /\ quality_score' = [returned |-> TRUE, value |-> calculate_quality_score(quality_metrics)]
    /\ UNCHANGED quality_metrics
    /\ UNCHANGED <<execVars, loopVars, planVars, createVars, afterQualityVars>>

NextQuality == CalculateQualityScore

SpecQuality == InitQuality /\ [][NextQuality]_vars

(***************************************************************************)
(* C13: the quality score is min(10, 8*completed/(completed+failed) +      *)
(* timeBonus), with timeBonus 2, 1, 0.5 or 0 for an average step time      *)
(* below 1 s, below 5 s, below 10 s or otherwise; it is 0 when no step was *)
(* counted, 10 for 10 completed, 0 failed and an average of 0.5 s, and it  *)
(* always lies between 0 and 10.                                           *)
(***************************************************************************)
StepsCounted == quality_metrics.steps_completed + quality_metrics.steps_failed

\* the average step time is below s seconds
AverageBelow(s) == quality_metrics.total_execution_time < 2 * s * StepsCounted

ExpectedBonusTimes2 ==
    IF AverageBelow(1) THEN 4 ELSE IF AverageBelow(5) THEN 2 ELSE IF AverageBelow(10) THEN 1 ELSE 0

\* 8*completed/(completed+failed) + timeBonus, as a fraction over 2*(completed+failed)
ExpectedUncapped ==
    Rat(16 * quality_metrics.steps_completed + ExpectedBonusTimes2 * StepsCounted, 2 * StepsCounted)

C13_QualityScoreFormula ==
    quality_score.returned =>
        /\ RatLeq(Rat(0, 1), quality_score.value)
        /\ RatLeq(quality_score.value, Rat(10, 1))
        /\ StepsCounted = 0 => RatEq(quality_score.value, Rat(0, 1))
        /\ StepsCounted > 0 =>
              RatEq(quality_score.value, RatMin(Rat(10, 1), ExpectedUncapped))
        /\ (/\ quality_metrics.steps_completed = 10
            /\ quality_metrics.steps_failed = 0
            /\ quality_metrics.total_execution_time = 10) =>
              RatEq(quality_score.value, Rat(10, 1))

\* a score has been returned for a run with failures whose average step time
\* sits exactly on the 5 s boundary, so the bonus is 0.5 and the score 4.5
C13_Witness ==
    /\ quality_score.returned
    /\ quality_metrics.steps_completed = 1
    /\ quality_metrics.steps_failed = 1
    /\ quality_metrics.total_execution_time = 20
    /\ RatEq(quality_score.value, Rat(9, 2))

(***************************************************************************)
(* C14: validation of a non-empty plan collects every problem in one       *)
(* result: an issue for each step without an id, for each step without a   *)
(* type, for each TOOL_CALL step without a tool name or with a tool that   *)
(* is not registered, and a circular_dependency issue when the             *)
(* dependencies (of steps with distinct ids) contain a cycle.              *)
(***************************************************************************)
HasStepIssue(v, t, i) == \E k \in DOMAIN v.issues : v.issues[k].type = t /\ v.issues[k].step = i

ValidatedTwice == pc = "validated_twice"

MaxCalls == 2
MaxChildren == 2
HistoryLimit == 10

ManagedAgents == {"spec_1", "exec_1"}

\* _get_agent_by_id: the managed agent with that id, or None
get_agent_by_id(agent_id) == IF agent_id \in ManagedAgents THEN agent_id ELSE Missing

DomainTask(tag) == Task("dict", "domain_analysis", Missing, tag)
ToolBasedTask(tag) == Task("dict", "tool_based", Missing, tag)
NotADictTask(tag) == Task("nondict", Missing, Missing, tag)
GenericTask(tag) == Task("dict", "other", Missing, tag)
CoordinationTask(strategy, tag) == Task("dict", "agent_coordination", strategy, tag)

\* the entries of a coordination task's "agents" list: {"id", "task"}
AgentConfigs ==
    { [id |-> "spec_1", task |-> DomainTask(0)],
      [id |-> "spec_1", task |-> NotADictTask(0)],
      [id |-> "exec_1", task |-> ToolBasedTask(0)],
      [id |-> UnknownAgentId, task |-> DomainTask(0)] }

\* the tasks a caller hands to an agent
TasksFor(a, tag) ==
    CASE AgentKind(a) = "specialist" -> {DomainTask(tag), NotADictTask(tag)}
      [] AgentKind(a) = "executor" -> {ToolBasedTask(tag), NotADictTask(tag)}
      [] OTHER -> {CoordinationTask("parallel", tag), CoordinationTask("sequential", tag),
                   GenericTask(tag), NotADictTask(tag)}

\* the except branch of execute: task.get on a non-dict raises
AgentErrorResult(a) == Result("error", a, "error", << >>)

\* SpecialistAgent.execute / ExecutorAgent.execute / CoordinatorAgent.execute
\* on a task that starts no child execute: the result dict
AgentResult(a, task) ==
    IF task.shape # "dict" THEN AgentErrorResult(a)
    ELSE CASE AgentKind(a) = "specialist" -> Result("completed", a, task.type, << >>)
           [] AgentKind(a) = "executor" -> Result(Missing, a, task.type, << >>)
           [] OTHER -> Result(Missing, a, "generic", << >>)

\* an execute awaits its children only in _coordinate_agents
Coordinates(a, task) ==
    /\ AgentKind(a) = "coordinator"
    /\ task.shape = "dict"
    /\ task.type = "agent_coordination"

\* _coordinate_agents: one child execute per listed agent that is managed
RECURSIVE ChildExecutes(_)
ChildExecutes(agents) ==
    IF agents = << >> THEN << >>
    ELSE LET rest == ChildExecutes(Tail(agents))
             agent == get_agent_by_id(Head(agents).id)
         IN  IF agent # Missing
             THEN <<[agent |-> agent, task |-> Head(agents).task, phase |-> "pending",
                     result |-> NoResult]>> \o rest
             ELSE rest

\* results = [r for r in agent_results if not isinstance(r, Exception)]
IsException(r) == r.kind = "exception"
RECURSIVE GatheredResults(_)
GatheredResults(cs) ==
    IF cs = << >> THEN << >>
    ELSE IF IsException(Head(cs).result) THEN GatheredResults(Tail(cs))
         ELSE <<Head(cs).result>> \o GatheredResults(Tail(cs))

\* update_status at the end of execute: ERROR in the except branch
StatusAfterAlwaysCompleted(result) == "completed"
StatusAfter(result) == IF result.kind = "error" THEN "error" ELSE "completed"

\* record_execution: append, then keep the last HistoryLimit entries
record_executionKeepsOldest(history, task, result) ==
    LET appended == Append(history, [task |-> task, result |-> result])
    IN  IF Len(appended) > HistoryLimit THEN SubSeq(appended, 1, HistoryLimit) ELSE appended
record_execution(history, task, result) ==
    LET appended == Append(history, [task |-> task, result |-> result])
    IN  IF Len(appended) > HistoryLimit
        THEN SubSeq(appended, Len(appended) - HistoryLimit + 1, Len(appended))
        ELSE appended

\* an execute whose coroutine can be suspended while it is busy: the
\* executor awaits its tool functions (_tool_based_execution)
CanSuspend(c) == AgentKind(c.agent) = "executor" /\ c.task.type = "tool_based"

CallNumber(bound) == bound - calls_left + 1

\* the caller awaits agent.execute(task): update_status(BUSY), dispatch
BeginExecute(bound) ==
    /\ top.phase = "idle"
    /\ calls_left > 0
    /\ \E a \in call_targets : \E task \in TasksFor(a, CallNumber(bound)) :
        /\ top' = [phase |-> "busy", agent |-> a, task |-> task]
        /\ agent_status' = [agent_status EXCEPT ![a] = "busy"]
        /\ children' = IF Coordinates(a, task) /\ task.strategy \in {"parallel", "sequential"}
                       THEN ChildExecutes(coordination_agents)
                       ELSE << >>
    /\ calls_left' = calls_left - 1
    /\ UNCHANGED <<agent_history, agent_log, last_result, call_targets, coordination_agents>>
    /\ UNCHANGED <<execVars, loopVars, planVars, createVars, qualityVars, afterAgentVars>>

\* a child execute starts: gather runs the children in list order, the
\* sequential strategy awaits each before starting the next
ChildBegin ==
    /\ top.phase = "busy"
    /\ \E i \in DOMAIN children :
        /\ children[i].phase = "pending"
        /\ \A j \in 1..(i - 1) :
            /\ children[j].phase # "pending"
            /\ top.task.strategy = "sequential" => children[j].phase = "finished"
            /\ children[j].phase = "running" => CanSuspend(children[j])
        /\ children' = [children EXCEPT ![i].phase = "running"]
        /\ agent_status' = [agent_status EXCEPT ![children[i].agent] = "busy"]
    /\ UNCHANGED <<agent_history, agent_log, top, last_result, calls_left, call_targets,
                   coordination_agents>>
    /\ UNCHANGED <<execVars, loopVars, planVars, createVars, qualityVars, afterAgentVars>>

\* a child execute returns: update_status, record_execution, return
ChildFinish ==
    /\ top.phase = "busy"
    /\ \E i \in DOMAIN children :
        /\ children[i].phase = "running"
        /\ LET a == children[i].agent
               task == children[i].task
               result == AgentResult(a, task)
           IN  /\ children' = [children EXCEPT ![i].phase = "finished", ![i].result = result]
               /\ agent_status' = [agent_status EXCEPT ![a] = StatusAfter(result)]
               /\ agent_history' = [agent_history EXCEPT
                                      ![a] = record_execution(agent_history[a], task, result)]
               /\ agent_log' = [agent_log EXCEPT
                                  ![a] = Append(agent_log[a], [task |-> task, result |-> result])]
    /\ UNCHANGED <<top, last_result, calls_left, call_targets, coordination_agents>>
    /\ UNCHANGED <<execVars, loopVars, planVars, createVars, qualityVars, afterAgentVars>>

\* the caller's execute returns once every child execute has returned
FinishExecute ==
    /\ top.phase = "busy"
    /\ \A i \in DOMAIN children : children[i].phase = "finished"
    /\ LET a == top.agent
           task == top.task
           result == IF Coordinates(a, task)
                     THEN Result(Missing, a, "agent_coordination", GatheredResults(children))
                     ELSE AgentResult(a, task)
       IN  /\ last_result' = result
           /\ agent_status' = [agent_status EXCEPT ![a] = StatusAfter(result)]
           /\ agent_history' = [agent_history EXCEPT
                                  ![a] = record_execution(agent_history[a], task, result)]
           /\ agent_log' = [agent_log EXCEPT
                              ![a] = Append(agent_log[a], [task |-> task, result |-> result])]
    /\ top' = [top EXCEPT !.phase = "idle"]
    /\ UNCHANGED <<children, calls_left, call_targets, coordination_agents>>
    /\ UNCHANGED <<execVars, loopVars, planVars, createVars, qualityVars, afterAgentVars>>

InitAgents ==
    /\ plan = << >>
    /\ InitExecVars
    /\ InitLoopVars
    /\ InitPlanVars
    /\ InitCreateVars
    /\ InitQualityVars
    /\ agent_status = [a \in AgentIds |-> "idle"]
    /\ agent_history = [a \in AgentIds |-> << >>]
    /\ agent_log = [a \in AgentIds |-> << >>]
    /\ top = NoTop
    /\ children = << >>
    /\ last_result = NoResult
    /\ calls_left = MaxCalls
    /\ call_targets = AgentIds
    /\ coordination_agents \in BoundedSeq(AgentConfigs, MaxChildren)
    /\ InitAfterAgentVars

NextAgents == BeginExecute(MaxCalls) \/ ChildBegin \/ ChildFinish \/ FinishExecute

SpecAgents == InitAgents /\ [][NextAgents]_vars

\* C16: when a coordinator's execute with the parallel strategy has
\* returned, every child execute it created has returned (none was cut
\* short by a failing sibling), and the results list holds exactly the
\* results of the children that succeeded: a failed child's result is not
\* in it.
ParallelReturned ==
    /\ top.phase = "idle"
    /\ Coordinates(top.agent, top.task)
    /\ top.task.strategy = "parallel"
    /\ last_result.kind = "agent_coordination"

RECURSIVE SuccessfulResults(_)
SuccessfulResults(cs) ==
    IF cs = << >> THEN << >>
    ELSE IF Head(cs).result.status = "error" THEN SuccessfulResults(Tail(cs))
         ELSE <<Head(cs).result>> \o SuccessfulResults(Tail(cs))

C16_ParallelKeepsOnlySuccesses ==
    ParallelReturned =>
        /\ \A i \in DOMAIN children : children[i].phase = "finished"
        /\ last_result.results = SuccessfulResults(children)

\* C17: as long as the executes on one agent do not overlap, the agent's
\* status is Busy while an execute on it is in progress; once the execute
\* has returned the status is Completed if it returned a normal result and
\* Error if it returned an error object, and never Busy; an agent on which
\* no execute has run is Idle, and the status changes only in a step in
\* which an execute on that agent starts or returns.
ExecutesInProgress(a) ==
    (IF top.phase = "busy" /\ top.agent = a THEN 1 ELSE 0)
    + Cardinality({i \in DOMAIN children : children[i].phase = "running" /\ children[i].agent = a})

MayOverlap(a) ==
    /\ top.task.strategy = "parallel"
    /\ \E i, j \in DOMAIN children :
        /\ i < j
        /\ children[i].agent = a
        /\ children[j].agent = a
        /\ CanSuspend(children[i])

StatusOfLastReturn(a) ==
    IF agent_log[a] = << >> THEN "idle"
    ELSE IF agent_log[a][Len(agent_log[a])].result.status = "error" THEN "error"
         ELSE "completed"

StatusFollowsExecute ==
    \A a \in AgentIds :
        ~MayOverlap(a) =>
            /\ ExecutesInProgress(a) >= 1 => agent_status[a] = "busy"
            /\ ExecutesInProgress(a) = 0 => agent_status[a] = StatusOfLastReturn(a)

OnlyExecuteChangesStatus ==
    \A a \in AgentIds :
        agent_status'[a] # agent_status[a] =>
            \/ ExecutesInProgress(a)' > ExecutesInProgress(a)
            \/ Len(agent_log'[a]) = Len(agent_log[a]) + 1

C17_StatusFollowsExecute == [](StatusFollowsExecute) /\ [][OnlyExecuteChangesStatus]_vars

C17_Witness ==
    /\ top.phase = "idle"
    /\ \E a \in AgentIds :
        /\ Len(agent_log[a]) = 2
        /\ agent_log[a][1].result.status # "error"
        /\ agent_log[a][2].result.status = "error"
        /\ agent_status[a] = "error"
    /\ \E a \in AgentIds :
        /\ Len(agent_log[a]) = 1
        /\ agent_log[a][1].result.status # "error"
        /\ agent_status[a] = "completed"

\* ---------------------------------------------------------------------
\* One specialist called MaxExecutes times in a row, with tasks on which
\* execute succeeds and tasks on which it fails; the k-th call's task
\* carries tag k.
\* ---------------------------------------------------------------------
MaxExecutes == 12

InitHistory ==
    /\ plan = << >>
    /\ InitExecVars
    /\ InitLoopVars
    /\ InitPlanVars
    /\ InitCreateVars
    /\ InitQualityVars
    /\ agent_status = [a \in AgentIds |-> "idle"]
    /\ agent_history = [a \in AgentIds |-> << >>]
    /\ agent_log = [a \in AgentIds |-> << >>]
    /\ top = NoTop
    /\ children = << >>
    /\ last_result = NoResult
    /\ calls_left = MaxExecutes
    /\ call_targets = {"spec_1"}
    /\ coordination_agents = << >>
    /\ InitAfterAgentVars

NextHistory == BeginExecute(MaxExecutes) \/ FinishExecute

SpecHistory == InitHistory /\ [][NextHistory]_vars

\* C18: after any number of Specialist.execute calls, successful or
\* failing, the execution history holds one {task, result} entry per
\* returned call for the most recent min(calls, 10) calls, in the order of
\* the calls: never more than 10 entries, the oldest dropped first.
ExecutesReturned == (MaxExecutes - calls_left) - (IF top.phase = "busy" THEN 1 ELSE 0)

C18_HistoryKeepsLastTen ==
    LET h == agent_history["spec_1"]
        l == agent_log["spec_1"]
        n == ExecutesReturned
    IN  /\ Len(l) = n
        /\ Len(h) <= 10
        /\ Len(h) = IF n <= 10 THEN n ELSE 10
        /\ \A k \in DOMAIN h :
            /\ h[k].task.tag = n - Len(h) + k
            /\ h[k] = l[n - Len(h) + k]

C18_Witness ==
    LET h == agent_history["spec_1"]
    IN  /\ ExecutesReturned = 12
        /\ top.phase = "idle"
        /\ Len(h) = 10
        /\ h[1].task.tag = 3
        /\ h[10].task.tag = 12
        /\ h[1].result.status = "error"
        /\ h[2].result.status = "completed"

\* ---------------------------------------------------------------------
\* HierarchicalToolManager (sub_agents.py 443-516): register_agent,
\* create_tool_hierarchy and execute_hierarchical_task.  The agents run
\* tasks that start no child execute, so each execute is one step of the
\* handler.
\* ---------------------------------------------------------------------
MaxHierarchyChildren == 2

HierarchyNames == {"research_workflow"}
UnknownHierarchy == "no_such_workflow"
Hierarchies == [root_agent : AgentIds, child_agents : BoundedSeq(AgentIds, MaxHierarchyChildren)]

\* HierarchicalToolManager.get_agent: self.agents.get(agent_id)
get_agent(agent_id) == IF agent_id \in manager_agents THEN agent_id ELSE Missing

\* the state of the agents an execute reads and writes
AgentState == [status |-> agent_status, history |-> agent_history, log |-> agent_log]

\* one whole execute on agent a: the agents' state afterwards and the result
ExecuteOn(st, a, task) ==
    LET result == AgentResult(a, task)
    IN  [st |-> [status |-> [st.status EXCEPT ![a] = StatusAfter(result)],
                 history |-> [st.history EXCEPT ![a] = record_execution(st.history[a], task, result)],
                 log |-> [st.log EXCEPT ![a] = Append(st.log[a], [task |-> task, result |-> result])]],
         result |-> result]

\* child_task = {"type": "subordinate_task", "parent_result", "data"}
SubordinateTask == Task("dict", "subordinate_task", Missing, 0)

\* the loop over child_agents: ids get_agent does not know are passed over;
\* building child_task reads task.get, which raises when task is not a dict
RECURSIVE ExecuteChildAgents(_, _, _, _)
ExecuteChildAgents(child_ids, task, st, child_results) ==
    IF child_ids = << >> THEN [st |-> st, child_results |-> child_results, raised |-> FALSE]
    ELSE IF get_agent(Head(child_ids)) = Missing
         THEN ExecuteChildAgents(Tail(child_ids), task, st, child_results)
         ELSE IF task.shape # "dict"
              THEN [st |-> st, child_results |-> child_results, raised |-> TRUE]
              ELSE LET run == ExecuteOn(st, Head(child_ids), SubordinateTask)
                   IN  ExecuteChildAgents(Tail(child_ids), task, run.st,
                                          Append(child_results, run.result))

HierarchyError(hierarchy_name) ==
    [returned |-> TRUE, kind |-> "error", hierarchy |-> hierarchy_name,
     root_result |-> NoResult, child_results |-> << >>]

\* execute_hierarchical_task: the agents' state afterwards and the return value
execute_hierarchical_task(hierarchy_name, task) ==
    IF hierarchy_name \notin DOMAIN tool_hierarchies
    THEN [st |-> AgentState, result |-> HierarchyError(hierarchy_name)]
    ELSE LET hierarchy == tool_hierarchies[hierarchy_name]
             root_agent == get_agent(hierarchy.root_agent)
         IN  IF root_agent = Missing
             THEN [st |-> AgentState, result |-> HierarchyError(hierarchy_name)]
             ELSE LET root == ExecuteOn(AgentState, root_agent, task)
                      kids == ExecuteChildAgents(hierarchy.child_agents, task, root.st, << >>)
                  IN  IF kids.raised
                      THEN [st |-> kids.st, result |-> HierarchyError(hierarchy_name)]
                      ELSE [st |-> kids.st,
                            result |-> [returned |-> TRUE, kind |-> "normal",
                                        hierarchy |-> hierarchy_name,
                                        root_result |-> root.result,
                                        child_results |-> kids.child_results]]

RegisterAgent ==
    /\ ~hier_result.returned
    /\ \E a \in AgentIds \ manager_agents : manager_agents' = manager_agents \cup {a}
    /\ UNCHANGED <<tool_hierarchies, hier_result, agent_powered_tools, htool_result, htool_calls>>
    /\ UNCHANGED <<execVars, loopVars, planVars, createVars, qualityVars, agentVars>>
    /\ UNCHANGED afterHierVars

CreateToolHierarchy ==
    /\ ~hier_result.returned
    /\ \E name \in HierarchyNames \ DOMAIN tool_hierarchies : \E hierarchy \in Hierarchies :
        tool_hierarchies' = [n \in DOMAIN tool_hierarchies \cup {name} |->
                               IF n = name THEN hierarchy ELSE tool_hierarchies[n]]
    /\ UNCHANGED <<manager_agents, hier_result, agent_powered_tools, htool_result, htool_calls>>
    /\ UNCHANGED <<execVars, loopVars, planVars, createVars, qualityVars, agentVars>>
    /\ UNCHANGED afterHierVars

ExecuteHierarchicalTask ==
    /\ ~hier_result.returned
    /\ \E hierarchy_name \in HierarchyNames \cup {UnknownHierarchy} :
       \E task \in {GenericTask(1), NotADictTask(1)} :
        LET run == execute_hierarchical_task(hierarchy_name, task)
        IN  /\ hier_result' = run.result
            /\ agent_status' = run.st.status
            /\ agent_history' = run.st.history
            /\ agent_log' = run.st.log
    /\ UNCHANGED <<top, children, last_result, calls_left, call_targets, coordination_agents>>
    /\ UNCHANGED <<manager_agents, tool_hierarchies, agent_powered_tools, htool_result, htool_calls>>
    /\ UNCHANGED <<execVars, loopVars, planVars, createVars, qualityVars>>
    /\ UNCHANGED afterHierVars

InitHierarchy ==
    /\ plan = << >>
    /\ InitExecVars
    /\ InitLoopVars
    /\ InitPlanVars
    /\ InitCreateVars
    /\ InitQualityVars
    /\ InitAgentVars
    /\ InitHierVars
    /\ InitAfterHierVars

NextHierarchy == RegisterAgent \/ CreateToolHierarchy \/ ExecuteHierarchicalTask

SpecHierarchy == InitHierarchy /\ [][NextHierarchy]_vars

\* C19: when the hierarchy name is unknown, or the hierarchy's root agent
\* id or one of its child agent ids names no registered agent,
\* execute_hierarchical_task ends with an error and not with a normal
\* {root_result, child_results} result.
MissingReference(hierarchy_name) ==
    \/ hierarchy_name \notin DOMAIN tool_hierarchies
    \/ /\ hierarchy_name \in DOMAIN tool_hierarchies
       /\ LET hierarchy == tool_hierarchies[hierarchy_name]
          IN  \/ hierarchy.root_agent \notin manager_agents
              \/ \E i \in DOMAIN hierarchy.child_agents :
                    hierarchy.child_agents[i] \notin manager_agents

C19_MissingReferenceFails ==
    (hier_result.returned /\ MissingReference(hier_result.hierarchy)) => hier_result.kind = "error"

\* ---------------------------------------------------------------------
\* ToolRegistry.register_hierarchical_tool and execute_hierarchical_tool
\* (tools.py 50-88).  The task built from the parameters has the keys
\* type, data and id only, so the bound agent's execute starts no child
\* execute and is one step of the handler.
\* ---------------------------------------------------------------------
HierarchicalToolNames == {"research_tool", "planning_tool"}
MaxRegistrations == 3

\* tool_config dicts: what tells two configs of one name apart, and the
\* function_name key
ToolConfigs == [version : {"v1", "v2"}, function_name : {"search_fn"}]

\* SubAgent.name
AgentName(a) == CASE a = "spec_1" -> "Research Specialist" [] a = "exec_1" -> "Task Executor"
                  [] a = "coord_1" -> "Task Coordinator" [] OTHER -> Missing

\* the parameters argument: a dict with or without a task_type key, or a
\* value that is not a dict
ToolParameters ==
    [shape : {"dict"}, task_type : {Missing, "domain_analysis", "tool_based"},
     payload : {"p1", "p2"}]
    \cup {[shape |-> "nondict", task_type |-> Missing, payload |-> Missing]}

\* task = {"type": parameters.get("task_type", "general"), "data": parameters, "id": ...}
ToolTaskIgnoresType(tool_name, parameters) ==
    [type |-> "general", data |-> parameters, id |-> tool_name]
ToolTask(tool_name, parameters) ==
    [type |-> IF parameters.task_type = Missing THEN "general" ELSE parameters.task_type,
     data |-> parameters, id |-> tool_name]

\* what the agent's execute reads of that task: it is a dict with a type
TaskOfTool(t) == Task("dict", t.type, Missing, 0)

ToolError(tool_name) ==
    [status |-> "error", tool |-> tool_name, agent |-> Missing, result |-> NoResult]

\* execute_hierarchical_tool: the agents' state afterwards, the execute
\* calls made and the return value
execute_hierarchical_tool(tool_name, parameters) ==
    IF tool_name \notin DOMAIN agent_powered_tools
    THEN [st |-> AgentState, calls |-> << >>, value |-> ToolError(tool_name)]
    ELSE IF parameters.shape # "dict"
         THEN [st |-> AgentState, calls |-> << >>, value |-> ToolError(tool_name)]
         ELSE LET agent == agent_powered_tools[tool_name]
                  task == ToolTask(tool_name, parameters)
                  run == ExecuteOn(AgentState, agent, TaskOfTool(task))
              IN  [st |-> run.st,
                   calls |-> <<[agent |-> agent, task |-> task]>>,
                   value |-> [status |-> "success", tool |-> tool_name,
                              agent |-> AgentName(agent), result |-> run.result]]

RegisterHierarchicalTool ==
    /\ ~htool_result.returned
    /\ Len(registrations) < MaxRegistrations
    /\ \E name \in HierarchicalToolNames : \E a \in AgentIds : \E tool_config \in ToolConfigs :
        /\ registry_tools' = registry_tools \cup {name}
        /\ tool_configs' = [n \in DOMAIN tool_configs \cup {name} |->
                              IF n = name THEN tool_config ELSE tool_configs[n]]
        /\ agent_powered_tools' = [n \in DOMAIN agent_powered_tools \cup {name} |->
                                     IF n = name THEN a ELSE agent_powered_tools[n]]
        /\ registrations' = Append(registrations, [kind |-> "hierarchical", name |-> name,
                                                   config |-> tool_config])
    /\ UNCHANGED <<tool_functions, lookup, optimization>>
    /\ UNCHANGED <<plan, pc, validation, graph, order, report, validation_again>>
    /\ UNCHANGED <<manager_agents, tool_hierarchies, hier_result, htool_result, htool_calls>>
    /\ UNCHANGED <<loopVars, planVars, createVars, qualityVars, agentVars>>
    /\ UNCHANGED afterRegistryVars

ExecuteHierarchicalTool ==
    /\ ~htool_result.returned
    /\ \E tool_name \in HierarchicalToolNames : \E parameters \in ToolParameters :
        LET run == execute_hierarchical_tool(tool_name, parameters)
        IN  /\ htool_result' = [returned |-> TRUE, tool_name |-> tool_name,
                                parameters |-> parameters, value |-> run.value]
            /\ htool_calls' = htool_calls \o run.calls
            /\ agent_status' = run.st.status
            /\ agent_history' = run.st.history
            /\ agent_log' = run.st.log
    /\ UNCHANGED <<top, children, last_result, calls_left, call_targets, coordination_agents>>
    /\ UNCHANGED <<manager_agents, tool_hierarchies, hier_result, agent_powered_tools>>
    /\ UNCHANGED <<execVars, loopVars, planVars, createVars, qualityVars>>
    /\ UNCHANGED afterHierVars

InitHierarchicalTool ==
    /\ plan = << >>
    /\ InitExecVars
    /\ InitLoopVars
    /\ InitPlanVars
    /\ InitCreateVars
    /\ InitQualityVars
    /\ InitAgentVars
    /\ InitHierVars
    /\ InitAfterHierVars

NextHierarchicalTool == RegisterHierarchicalTool \/ ExecuteHierarchicalTool

SpecHierarchicalTool == InitHierarchicalTool /\ [][NextHierarchicalTool]_vars

\* C20: execute_hierarchical_tool with a name that has no bound agent
\* returns a result with status error and invokes no agent; with a bound
\* name (and parameters that are a dict, as its signature declares) it calls
\* the bound agent's execute exactly once, with a task whose type is the
\* parameters' task_type ("general" without one), whose data is the
\* parameters and which has an id, and returns status success, the agent's
\* name and that execute's result.  It returns in every case.
ToolCallReturned == htool_result.returned

C20_HierarchicalToolDelegates ==
    ToolCallReturned =>
        LET tool_name == htool_result.tool_name
            parameters == htool_result.parameters
            value == htool_result.value
        IN  /\ value.tool = tool_name
            /\ tool_name \notin DOMAIN agent_powered_tools =>
                /\ value.status = "error"
                /\ htool_calls = << >>
                /\ \A a \in AgentIds : agent_log[a] = << >> /\ agent_status[a] = "idle"
            /\ (tool_name \in DOMAIN agent_powered_tools /\ parameters.shape = "dict") =>
                LET bound == agent_powered_tools[tool_name]
                IN  /\ Len(htool_calls) = 1
                    /\ htool_calls[1].agent = bound
                    /\ htool_calls[1].task.type =
                          (IF parameters.task_type = Missing THEN "general"
                           ELSE parameters.task_type)
                    /\ htool_calls[1].task.data = parameters
                    /\ htool_calls[1].task.id # Missing
                    /\ \A a \in AgentIds : Len(agent_log[a]) = (IF a = bound THEN 1 ELSE 0)
                    /\ value.status = "success"
                    /\ value.agent = AgentName(bound)
                    /\ value.result = agent_log[bound][1].result

C20_Witness ==
    /\ ToolCallReturned
    /\ htool_result.tool_name = "research_tool"
    /\ DOMAIN agent_powered_tools = {"research_tool"}
    /\ agent_powered_tools["research_tool"] = "spec_1"
    /\ htool_result.parameters.task_type = "domain_analysis"
    /\ htool_result.value.status = "success"
    /\ htool_result.value.result.status = "completed"
    /\ Len(htool_calls) = 1

\* ---------------------------------------------------------------------
\* ToolRegistry registration (tools.py 17-54): register_tool,
\* register_hierarchical_tool and get_tool_config on one registry.
\* ---------------------------------------------------------------------
PlainToolNames == {"research_tool", "calc"}
NeverRegistered == "ghost"
LookupNames == PlainToolNames \cup HierarchicalToolNames \cup {NeverRegistered}

\* self.tools.get(tool_name): the stored config, or None
StoredToolConfig(tool_name) ==
    IF tool_name \in DOMAIN tool_configs THEN tool_configs[tool_name] ELSE NoConfig

\* tool_name in self.agent_powered_tools: the test by which
\* get_tool_capabilities, execute_hierarchical_tool and
\* optimize_tool_selection take a tool for a hierarchical one
IsAgentPowered(tool_name) == tool_name \in DOMAIN agent_powered_tools

RegisterTool ==
    /\ Len(registrations) < MaxRegistrations
    /\ \E name \in PlainToolNames : \E tool_config \in ToolConfigs :
        /\ registry_tools' = registry_tools \cup {name}
        /\ tool_configs' = [n \in DOMAIN tool_configs \cup {name} |->
                              IF n = name THEN tool_config ELSE tool_configs[n]]
        /\ tool_functions' = [f \in DOMAIN tool_functions \cup {tool_config.function_name} |->
                                IF f = tool_config.function_name THEN "search_impl"
                                ELSE tool_functions[f]]
        /\ registrations' = Append(registrations, [kind |-> "tool", name |-> name,
                                                   config |-> tool_config])
    /\ UNCHANGED <<lookup, optimization>>
    /\ UNCHANGED <<plan, pc, validation, graph, order, report, validation_again>>
    /\ UNCHANGED <<loopVars, planVars, createVars, qualityVars, agentVars, hierVars>>
    /\ UNCHANGED afterRegistryVars

GetToolConfig ==
    /\ \E tool_name \in LookupNames :
        lookup' = [name |-> tool_name, value |-> StoredToolConfig(tool_name)]
    /\ UNCHANGED <<tool_configs, tool_functions, registrations, optimization>>
    /\ UNCHANGED <<execVars, loopVars, planVars, createVars, qualityVars, agentVars, hierVars>>
    /\ UNCHANGED afterRegistryVars

InitRegistry ==
    /\ plan = << >>
    /\ InitExecVars
    /\ InitLoopVars
    /\ InitPlanVars
    /\ InitCreateVars
    /\ InitQualityVars
    /\ InitAgentVars
    /\ InitHierVars
    /\ InitAfterHierVars

NextRegistry == RegisterTool \/ RegisterHierarchicalTool \/ GetToolConfig

SpecRegistry == InitRegistry /\ [][NextRegistry]_vars

\* C21: registration is last-write-wins per name: get_tool_config(name)
\* returns the config of the most recent registration of the name (the
\* config it was loaded with if it was never re-registered, nothing if it
\* was never registered); a name is taken for a hierarchical tool exactly
\* when its most recent registration was register_hierarchical_tool; and
\* get_tool_config changes nothing in the registry.
RegistrationsOf(name) == {i \in DOMAIN registrations : registrations[i].name = name}

LastRegistrationOf(name) ==
    registrations[CHOOSE i \in RegistrationsOf(name) : \A j \in RegistrationsOf(name) : j <= i]

MostRecentConfig(name) ==
    IF RegistrationsOf(name) # {} THEN LastRegistrationOf(name).config
    ELSE IF name \in RegisteredTools THEN BuiltinConfig
    ELSE NoConfig

LastWriteWins ==
    \A name \in LookupNames :
        /\ StoredToolConfig(name) = MostRecentConfig(name)
        /\ IsAgentPowered(name) <=>
              (RegistrationsOf(name) # {} /\ LastRegistrationOf(name).kind = "hierarchical")

LookupIsPure ==
    lookup' # lookup =>
        /\ lookup'.value = MostRecentConfig(lookup'.name)
        /\ tool_configs' = tool_configs
        /\ tool_functions' = tool_functions
        /\ agent_powered_tools' = agent_powered_tools

C21_RegistrationLastWriteWins == [](LastWriteWins) /\ [][LookupIsPure]_vars

\* ---------------------------------------------------------------------
\* ToolRegistry.optimize_tool_selection (tools.py 90-137) on a registry
\* in which up to MaxTools tools were registered one after another, each
\* as a plain tool or bound to a specialist, an executor or a coordinator.
\* ---------------------------------------------------------------------
MaxTools == 4
MaxKeywords == 2
RecommendedLimit == 3
HierarchicalBonus == 2

OptimizeToolNames == <<"calc", "research_tool", "planning_tool", "search_tool", "report_tool">>
ToolKinds == {"plain", "spec_1", "exec_1", "coord_1"}
Keywords == {"basic", "research", "execution"}

\* get_capabilities of the three agent classes, and of a plain tool
SpecialistCapabilities ==
    <<"research analysis", "research synthesis", "research validation", "research consultation">>
ExecutorCapabilities ==
    <<"direct execution", "tool-based execution", "iterative processing",
      "complex task execution", "operation chaining">>
CoordinatorCapabilities ==
    <<"multi-agent coordination", "load balancing", "conflict resolution",
      "task distribution", "agent management">>

\* get_tool_capabilities
get_tool_capabilities(tool_name) ==
    IF tool_name \in DOMAIN agent_powered_tools
    THEN CASE AgentKind(agent_powered_tools[tool_name]) = "specialist" -> SpecialistCapabilities
           [] AgentKind(agent_powered_tools[tool_name]) = "executor" -> ExecutorCapabilities
           [] OTHER -> CoordinatorCapabilities
    ELSE IF tool_name \in DOMAIN tool_configs THEN <<"basic_execution">>
    ELSE << >>

\* keyword in capability.lower(): substring test on the words used here
KeywordIn(keyword, capability) ==
    CASE keyword = "basic" -> capability = "basic_execution"
      [] keyword = "research" -> capability \in Range(SpecialistCapabilities)
      [] keyword = "execution" -> capability \in {"basic_execution", "direct execution",
                                                  "tool-based execution", "complex task execution"}
      [] OTHER -> FALSE

RECURSIVE SumOver(_, _)
SumOver(f, n) == IF n = 0 THEN 0 ELSE f[n] + SumOver(f, n - 1)

\* the two nested loops that add 1 per (capability, keyword) match
CapabilityMatches(capabilities, task_keywords) ==
    SumOver([c \in DOMAIN capabilities |->
                SumOver([k \in DOMAIN task_keywords |->
                            IF KeywordIn(task_keywords[k], capabilities[c]) THEN 1 ELSE 0],
                        Len(task_keywords))],
            Len(capabilities))

ToolScoreNoBonus(tool_name, task_keywords) ==
    CapabilityMatches(get_tool_capabilities(tool_name), task_keywords)
ToolScore(tool_name, task_keywords) ==
    CapabilityMatches(get_tool_capabilities(tool_name), task_keywords)
    + (IF tool_name \in DOMAIN agent_powered_tools THEN HierarchicalBonus ELSE 0)

\* the keys of tool_scores in insertion order: first occurrences in available_tools
RECURSIVE ScoreKeys(_, _)
ScoreKeys(available_tools, seen) ==
    IF available_tools = << >> THEN seen
    ELSE ScoreKeys(Tail(available_tools),
                   IF Contains(seen, Head(available_tools)) THEN seen
                   ELSE Append(seen, Head(available_tools)))

\* sorted(..., key=score, reverse=True): stable, so equal scores keep the
\* order of the keys
RECURSIVE InsertByScore(_, _, _)
InsertByScore(sorted, key, scores) ==
    IF sorted = << >> THEN <<key>>
    ELSE IF scores[Head(sorted)] >= scores[key]
         THEN <<Head(sorted)>> \o InsertByScore(Tail(sorted), key, scores)
         ELSE <<key>> \o sorted

RECURSIVE SortedByScore(_, _, _)
SortedByScore(keys, sorted, scores) ==
    IF keys = << >> THEN sorted
    ELSE SortedByScore(Tail(keys), InsertByScore(sorted, Head(keys), scores), scores)

RECURSIVE PositiveOnly(_, _)
PositiveOnly(keys, scores) ==
    IF keys = << >> THEN << >>
    ELSE IF scores[Head(keys)] > 0 THEN <<Head(keys)>> \o PositiveOnly(Tail(keys), scores)
         ELSE PositiveOnly(Tail(keys), scores)

optimize_tool_selection(task_keywords, available_tools) ==
    LET keys == ScoreKeys(available_tools, << >>)
        tool_scores == [t \in Range(keys) |-> ToolScore(t, task_keywords)]
        sorted_tools == SortedByScore(keys, << >>, tool_scores)
        first_three == SubSeq(sorted_tools, 1, IF Len(sorted_tools) < RecommendedLimit
                                                THEN Len(sorted_tools) ELSE RecommendedLimit)
    IN  [tool_scores |-> tool_scores,
         recommended_tools |-> PositiveOnly(first_three, tool_scores)]

\* the names registered after the built-in one, in registration order
RegisteredAfterBuiltin(k) == [i \in 1..(k - 1) |-> OptimizeToolNames[i + 1]]

Reversed(s) == [i \in 1..Len(s) |-> s[Len(s) + 1 - i]]

\* the available_tools lists tried on a registry with the names in `names`
AvailableLists(names) ==
    { names, Reversed(names), Append(names, NeverRegistered), names \o names,
      << >>, Tail(names) \o <<Head(names)>> }

InitOptimize ==
    /\ plan = << >>
    /\ pc = "start"
    /\ validation = NotValidated
    /\ graph = EmptyGraph
    /\ order = << >>
    /\ report = NoReport
    /\ validation_again = NotValidated
    /\ InitLoopVars
    /\ InitPlanVars
    /\ InitCreateVars
    /\ InitQualityVars
    /\ InitAgentVars
    /\ manager_agents = {}
    /\ tool_hierarchies = << >>
    /\ hier_result = NoHierResult
    /\ htool_result = NoToolResult
    /\ htool_calls = << >>
    /\ \E k \in 1..MaxTools : \E kinds \in [1..(k - 1) -> ToolKinds] :
        LET later == RegisteredAfterBuiltin(k)
        IN  /\ registry_tools = RegisteredTools \cup Range(later)
            /\ tool_configs = [n \in RegisteredTools \cup Range(later) |->
                                 IF n \in RegisteredTools THEN BuiltinConfig
                                 ELSE [version |-> "v1", function_name |-> "search_fn"]]
            /\ agent_powered_tools =
                  [n \in {later[i] : i \in {j \in 1..(k - 1) : kinds[j] # "plain"}} |->
                      kinds[CHOOSE i \in 1..(k - 1) : later[i] = n]]
            /\ registrations =
                  [i \in 1..(k - 1) |->
                      [kind |-> IF kinds[i] = "plain" THEN "tool" ELSE "hierarchical",
                       name |-> later[i],
                       config |-> [version |-> "v1", function_name |-> "search_fn"]]]
    /\ tool_functions = [f \in {"builtin_fn", "search_fn"} |->
                            IF f = "builtin_fn" THEN "builtin_fn" ELSE "search_impl"]
    /\ lookup = NoLookup
    /\ optimization = [returned |-> FALSE]
    /\ InitAfterRegistryVars

OptimizeToolSelection ==
    /\ ~optimization.returned
    /\ \E task_keywords \in BoundedSeq(Keywords, MaxKeywords) :
       \E available_tools \in AvailableLists(<<"calc">> \o [i \in DOMAIN registrations |->
                                                              registrations[i].name]) :
        LET value == optimize_tool_selection(task_keywords, available_tools)
        IN  optimization' = [returned |-> TRUE, task_keywords |-> task_keywords,
                             available_tools |-> available_tools,
                             tool_scores |-> value.tool_scores,
                             recommended_tools |-> value.recommended_tools]
    /\ UNCHANGED <<tool_configs, tool_functions, registrations, lookup>>
    /\ UNCHANGED <<execVars, loopVars, planVars, createVars, qualityVars, agentVars, hierVars>>
    /\ UNCHANGED afterRegistryVars

NextOptimize == OptimizeToolSelection

SpecOptimize == InitOptimize /\ [][NextOptimize]_vars

\* C22: optimize_tool_selection recommends at most 3 tools, each with a
\* score above 0; they are the highest-scoring available tools in
\* non-increasing score order, tools of equal score in the order in which
\* they were registered; a hierarchical tool's score includes the +2
\* bonus; an empty available list gives an empty recommendation; and the
\* call changes neither the registry nor a plan.
RegistrationRank(tool_name) ==
    IF tool_name \in RegisteredTools THEN 0
    ELSE CHOOSE i \in DOMAIN registrations : registrations[i].name = tool_name

Recommendation ==
    LET rec == optimization.recommended_tools
        scores == optimization.tool_scores
        offered == Range(optimization.available_tools)
        left_out == offered \ Range(rec)
    IN  /\ Len(rec) <= 3
        /\ Range(rec) \subseteq offered
        /\ \A i \in DOMAIN rec : scores[rec[i]] > 0
        /\ \A i, j \in DOMAIN rec : i < j =>
            /\ rec[i] # rec[j]
            /\ scores[rec[i]] >= scores[rec[j]]
            /\ scores[rec[i]] = scores[rec[j]] =>
                  RegistrationRank(rec[i]) < RegistrationRank(rec[j])
        /\ \A t \in left_out : scores[t] > 0 =>
            /\ Len(rec) = 3
            /\ \A i \in DOMAIN rec :
                /\ scores[rec[i]] >= scores[t]
                /\ scores[rec[i]] = scores[t] => RegistrationRank(rec[i]) < RegistrationRank(t)
        /\ \A t \in offered :
              scores[t] = ToolScoreNoBonus(t, optimization.task_keywords)
                          + (IF IsAgentPowered(t) THEN 2 ELSE 0)
        /\ optimization.available_tools = << >> => rec = << >>

OptimizeIsPure ==
    optimization' # optimization =>
        /\ tool_configs' = tool_configs
        /\ tool_functions' = tool_functions
        /\ agent_powered_tools' = agent_powered_tools
        /\ plan' = plan

C22_RecommendsTopThree ==
    [](optimization.returned => Recommendation) /\ [][OptimizeIsPure]_vars

\* ---------------------------------------------------------------------
\* Planner._apply_dynamic_memory_enhancement (planner.py 394-468).
\* Relevance scores are in tenths; a memory is named by its position in
\* the list the retrieval returned.  A plan object is a dict whose "plan"
\* value is a nested dict shared by every shallow copy of it.
\* ---------------------------------------------------------------------
MaxMemories == 6
MemoryThresholdTenths == 5
MaxMemoryContextItems == 5

MemoryScores == {4, 5, 9}
MemoryLists == BoundedSeq(MemoryScores, MaxMemories)

\* a plan dict: has_plan tells whether it has the "plan" key; memory_context
\* is what was appended to plan["plan"]["description"]; the other fields
\* are top-level keys, Missing when absent
MemoryPlan(has_plan) ==
    [has_plan |-> has_plan, memory_context |-> << >>, dynamic_memory_applied |-> Missing,
     memory_enhancement |-> Missing, dynamic_memory_error |-> Missing]
MemoryPlans == {MemoryPlan(TRUE), MemoryPlan(FALSE)}

\* positions of the memories with relevance_score >= the threshold, in list order
RECURSIVE FilteredMemories(_, _)
FilteredMemories(memories, i) ==
    IF i > Len(memories) THEN << >>
    ELSE IF memories[i] >= MemoryThresholdTenths
         THEN <<i>> \o FilteredMemories(memories, i + 1)
         ELSE FilteredMemories(memories, i + 1)

\* filtered_memories[:self.max_memory_context_items]
FinalMemories(memories) ==
    LET filtered == FilteredMemories(memories, 1)
    IN  SubSeq(filtered, 1, IF Len(filtered) < MaxMemoryContextItems THEN Len(filtered)
                            ELSE MaxMemoryContextItems)

\* the call: what the input plan object holds afterwards, the returned
\* plan, and whether the returned plan is the input object itself
apply_dynamic_memory_enhancement(db_session, memories, input) ==
    IF ~db_session
    THEN [plan_after |-> input, result |-> input, result_is_input |-> TRUE]
    ELSE IF memories = << >>
    THEN LET marked == [input EXCEPT !.dynamic_memory_applied = "false",
                                     !.memory_enhancement = "no_relevant_memories"]
         IN  [plan_after |-> marked, result |-> marked, result_is_input |-> TRUE]
    ELSE IF FilteredMemories(memories, 1) = << >>
    THEN LET marked == [input EXCEPT !.dynamic_memory_applied = "false",
                                     !.memory_enhancement = "below_threshold"]
         IN  [plan_after |-> marked, result |-> marked, result_is_input |-> TRUE]
    ELSE IF ~input.has_plan
    THEN \* enhanced_plan["plan"] raises KeyError; the handler marks the input plan
         LET marked == [input EXCEPT !.dynamic_memory_applied = "false",
                                     !.dynamic_memory_error = "KeyError"]
         IN  [plan_after |-> marked, result |-> marked, result_is_input |-> TRUE]
    ELSE \* enhanced_plan = plan.copy(): the nested "plan" dict is shared
         LET shared == [input EXCEPT !.memory_context = FinalMemories(memories)]
         IN  [plan_after |-> shared,
              result |-> [shared EXCEPT !.dynamic_memory_applied = "true",
                                        !.memory_enhancement = "memories_used"],
              result_is_input |-> FALSE]

InitMemory ==
    /\ plan = << >>
    /\ InitExecVars
    /\ InitLoopVars
    /\ InitPlanVars
    /\ InitCreateVars
    /\ InitQualityVars
    /\ InitAgentVars
    /\ InitHierVars
    /\ InitRegistryVars
    /\ \E db_session \in BOOLEAN : \E memories \in MemoryLists : \E input \in MemoryPlans :
        memory_call = [returned |-> FALSE, db_session |-> db_session, memories |-> memories,
                       plan |-> input, plan_after |-> input, result |-> input,
                       result_is_input |-> FALSE]
    /\ InitAfterMemoryVars

ApplyDynamicMemoryEnhancement ==
    /\ ~memory_call.returned
    /\ LET out == apply_dynamic_memory_enhancement(memory_call.db_session, memory_call.memories,
                                                   memory_call.plan)
       IN  memory_call' = [memory_call EXCEPT !.returned = TRUE,
                                              !.plan_after = out.plan_after,
                                              !.result = out.result,
                                              !.result_is_input = out.result_is_input]
    /\ UNCHANGED <<execVars, loopVars, planVars, createVars, qualityVars, agentVars, hierVars,
                   registryVars>>
    /\ UNCHANGED afterMemoryVars

NextMemory == ApplyDynamicMemoryEnhancement

SpecMemory == InitMemory /\ [][NextMemory]_vars

\* C23: when the enhancement is applied, the memories appended to the plan
\* description are the 5 highest-relevance memories among those with
\* relevance_score >= 0.5 (all of them when there are at most 5), in
\* whatever order the retrieval returned them; none below 0.5 is appended.
EnhancementApplied ==
    /\ memory_call.returned
    /\ memory_call.result.dynamic_memory_applied = "true"

C23_AppendsTopKAboveThreshold ==
    EnhancementApplied =>
        LET memories == memory_call.memories
            appended == Range(memory_call.result.memory_context)
            eligible == {i \in DOMAIN memories : memories[i] >= 5}
        IN  /\ appended \subseteq eligible
            /\ Cardinality(appended) = (IF Cardinality(eligible) < 5 THEN Cardinality(eligible)
                                        ELSE 5)
            /\ \A i \in appended : \A j \in eligible \ appended : memories[i] >= memories[j]

\* C29: a plan-transforming stage never modifies the plan object it is given,
\* nested description included, on any exit path (applied, not applied or
\* error): the input plan is equal after the call to what it was before, and
\* the returned plan is a separate object.
InputPlanUntouched == memory_call.plan_after = memory_call.plan

ReturnsSeparatePlan == ~memory_call.result_is_input

C29_StagesLeaveInputPlanUnchanged ==
    memory_call.returned => (InputPlanUntouched /\ ReturnsSeparatePlan)

\* ---------------------------------------------------------------------
\* ExecutorAgent._iterative_execution (sub_agents.py 404-423).  A state
\* is the value of task["initial_state"] / task["target_state"]: a dict,
\* given as its set of (key, value) items, or a value that is not a dict.
\* ---------------------------------------------------------------------
MaxIterations == 5

IterationKeys == <<"iteration_1", "iteration_2", "iteration_3", "iteration_4", "iteration_5">>
StateKeys == {"iteration_1", "iteration_2", "done"}

DictState(items) == [is_dict |-> TRUE, items |-> items, atom |-> Missing]
AtomState(atom) == [is_dict |-> FALSE, items |-> {}, atom |-> atom]

\* dicts over StateKeys with boolean values
DictItems == {items \in SUBSET (StateKeys \X BOOLEAN) :
                \A p, q \in items : p[1] = q[1] => p = q}
IterStates == {DictState(items) : items \in DictItems} \cup {AtomState("x"), AtomState("y")}

\* {**current_state, f"iteration_{iterations}": True}
WithIteration(state, k) ==
    DictState({p \in state.items : p[1] # IterationKeys[k]} \cup {<<IterationKeys[k], TRUE>>})

\* while iterations < self.max_iterations and current_state != target_state
LoopCondition(iterations, current_state, target_state) ==
    iterations < MaxIterations /\ current_state # target_state

\* "converged": current_state == target_state
ConvergedAlways(current_state, target_state) == TRUE
Converged(current_state, target_state) == current_state = target_state

InitIterative ==
    /\ plan = << >>
    /\ InitExecVars
    /\ InitLoopVars
    /\ InitPlanVars
    /\ InitCreateVars
    /\ InitQualityVars
    /\ InitAgentVars
    /\ InitHierVars
    /\ InitRegistryVars
    /\ InitMemoryVars
    /\ \E initial_state \in IterStates : \E target_state \in IterStates :
        iter_call = [pc |-> "loop", iterations |-> 0, initial_state |-> initial_state,
                     current_state |-> initial_state, target_state |-> target_state,
                     converged |-> FALSE]
    /\ InitAfterIterVars

\* one pass of the loop body; unpacking a value that is not a dict raises
IterationStep ==
    /\ iter_call.pc = "loop"
    /\ LoopCondition(iter_call.iterations, iter_call.current_state, iter_call.target_state)
    /\ iter_call' =
          IF iter_call.current_state.is_dict
          THEN [iter_call EXCEPT !.iterations = @ + 1,
                                 !.current_state = WithIteration(iter_call.current_state,
                                                                 iter_call.iterations + 1)]
          ELSE [iter_call EXCEPT !.iterations = @ + 1, !.pc = "raised"]
    /\ UNCHANGED <<execVars, loopVars, planVars, createVars, qualityVars, agentVars, hierVars,
                   registryVars, memoryVars>>
    /\ UNCHANGED afterIterVars

\* the loop ends and the result dict is returned
IterationReturn ==
    /\ iter_call.pc = "loop"
    /\ ~LoopCondition(iter_call.iterations, iter_call.current_state, iter_call.target_state)
    /\ iter_call' = [iter_call EXCEPT
                       !.pc = "returned",
                       !.converged = Converged(iter_call.current_state, iter_call.target_state)]
    /\ UNCHANGED <<execVars, loopVars, planVars, createVars, qualityVars, agentVars, hierVars,
                   registryVars, memoryVars>>
    /\ UNCHANGED afterIterVars

NextIterative == IterationStep \/ IterationReturn

SpecIterative == InitIterative /\ [][NextIterative]_vars /\ WF_vars(NextIterative)

\* C24: iterative execution ends after at most 5 iterations; no iteration
\* starts once the current state equals the target state (none at all when
\* the initial state already equals it); and the reported converged is true
\* exactly when the final state equals the target state.
IterativeEnded == iter_call.pc \in {"returned", "raised"}

IterativeSafe ==
    /\ iter_call.iterations <= 5
    /\ iter_call.initial_state = iter_call.target_state => iter_call.iterations = 0
    /\ iter_call.pc = "returned" =>
          (iter_call.converged <=> iter_call.current_state = iter_call.target_state)

NoIterationAfterTarget ==
    iter_call'.iterations # iter_call.iterations =>
        iter_call.current_state # iter_call.target_state

C24_IterativeExecutionTerminates ==
    /\ [](IterativeSafe)
    /\ [][NoIterationAfterTarget]_vars
    /\ <>(IterativeEnded)

C24_Witness ==
    /\ iter_call.pc = "returned"
    /\ iter_call.iterations = 2
    /\ iter_call.converged
    /\ iter_call.initial_state # iter_call.target_state

\* ---------------------------------------------------------------------
\* CreditService.redeem_credit_code (services/credit_service.py)
\* ---------------------------------------------------------------------

\* how many redemption calls a behaviour makes
MaxRedeems == 4

UserIds == {"u1", "u2"}
UnknownUserId == "nobody"
StoredCodes == {"ONCE", "MULTI", "EXPIRED", "INACTIVE"}
RedeemInputs == StoredCodes \cup {"once", "GHOST"}

\* str.upper on the codes a call passes
Upper(code) == IF code = "once" THEN "ONCE" ELSE code

\* a credit_codes row; expires_at is none, or a time before or after utcnow()
CodeRow(is_active, expires_at, max_uses, credit_amount) ==
    [is_active |-> is_active, expires_at |-> expires_at, current_uses |-> 0,
     max_uses |-> max_uses, credit_amount |-> credit_amount]

NoCode == [is_active |-> FALSE, expires_at |-> "absent", current_uses |-> 0,
           max_uses |-> 0, credit_amount |-> 0]

\* db.query(CreditCode).filter(code == code.upper(), is_active == True).first()
FindActiveCode(db, code) ==
    IF Upper(code) \in DOMAIN db.codes /\ db.codes[Upper(code)].is_active
    THEN db.codes[Upper(code)]
    ELSE NoCode

\* credit_code.expires_at and credit_code.expires_at < datetime.utcnow()
CodeExpired(row) == row.expires_at = "past"

\* credit_code.current_uses >= credit_code.max_uses
CodeExhaustedOffByOne(row) == row.current_uses > row.max_uses
CodeExhausted(row) == row.current_uses >= row.max_uses

\* the completed transaction of this user with this code, if there is one
ExistingTransaction(db, code, user_id) ==
    \E i \in 1..Len(db.transactions) :
        /\ db.transactions[i].credit_code_id = Upper(code)
        /\ db.transactions[i].user_id = user_id
        /\ db.transactions[i].status = "completed"

RedeemFailure(db, reason) ==
    [db |-> db, success |-> FALSE, reason |-> reason, amount |-> 0, new_balance |-> 0]

\* the rows after the three writes of the try block are committed
Redeemed(db, code, user_id) ==
    LET row == db.codes[Upper(code)] IN
    [db EXCEPT !.balance[user_id] = @ + row.credit_amount,
               !.codes[Upper(code)].current_uses = @ + 1,
               !.transactions = Append(@, [user_id |-> user_id,
                                           credit_code_id |-> Upper(code),
                                           transaction_type |-> "credit_code",
                                           amount |-> row.credit_amount,
                                           status |-> "completed"])]

\* redeem_credit_code: the rows afterwards and the dict returned; a failing
\* commit is rolled back
redeem_credit_code(db, code, user_id, commit_ok) ==
    LET credit_code == FindActiveCode(db, code) IN
    IF credit_code = NoCode THEN RedeemFailure(db, "not_found")
    ELSE IF CodeExpired(credit_code) THEN RedeemFailure(db, "expired")
    ELSE IF CodeExhausted(credit_code) THEN RedeemFailure(db, "max_uses")
    ELSE IF user_id \notin DOMAIN db.balance THEN RedeemFailure(db, "no_user")
    ELSE IF credit_code.max_uses = 1 /\ ExistingTransaction(db, code, user_id)
         THEN RedeemFailure(db, "already_used")
    ELSE IF ~commit_ok THEN RedeemFailure(db, "rolled_back")
    ELSE LET after == Redeemed(db, code, user_id) IN
         [db |-> after, success |-> TRUE, reason |-> "redeemed",
          amount |-> credit_code.credit_amount,
          new_balance |-> after.balance[user_id]]

InitCredit ==
    /\ plan = [steps |-> <<>>]
    /\ pc = "start"
    /\ validation = [is_valid |-> TRUE, errors |-> {}]
    /\ graph = <<>>
    /\ order = <<>>
    /\ report = [status |-> "none"]
    /\ registry_tools = RegisteredTools
    /\ validation_again = [is_valid |-> TRUE, errors |-> {}]
    /\ InitLoopVars /\ InitPlanVars /\ InitCreateVars /\ InitQualityVars
    /\ InitAgentVars /\ InitHierVars /\ InitRegistryVars /\ InitMemoryVars
    /\ InitIterVars
    /\ credit_db = [balance |-> [u \in UserIds |-> 10],
                    codes |-> [c \in StoredCodes |->
                                 CASE c = "ONCE" -> CodeRow(TRUE, "none", 1, 5)
                                   [] c = "MULTI" -> CodeRow(TRUE, "future", 2, 3)
                                   [] c = "EXPIRED" -> CodeRow(TRUE, "past", 1, 7)
                                   [] OTHER -> CodeRow(FALSE, "none", 1, 9)],
                    transactions |-> << >>,
                    payments |-> << >>]
    /\ redeem_call = NoRedeemCall
    /\ payment_call = NoPaymentCall

RedeemCreditCode ==
    /\ redeem_call.count < MaxRedeems
    /\ \E code \in RedeemInputs, user_id \in UserIds \cup {UnknownUserId},
          commit_ok \in BOOLEAN :
          LET out == redeem_credit_code(credit_db, code, user_id, commit_ok) IN
          /\ credit_db' = out.db
          /\ redeem_call' = [returned |-> TRUE, count |-> redeem_call.count + 1,
                             code |-> code, user_id |-> user_id,
                             db_before |-> credit_db, success |-> out.success,
                             reason |-> out.reason, amount |-> out.amount,
                             new_balance |-> out.new_balance]
    /\ UNCHANGED payment_call
    /\ UNCHANGED <<execVars, loopVars, planVars, createVars, qualityVars, agentVars, hierVars,
                   registryVars, memoryVars, iterVars>>

NextCredit == RedeemCreditCode

SpecCredit == InitCredit /\ [][NextCredit]_vars

\* C25: a successful redemption adds exactly credit_amount to the user's
\* balance, adds exactly 1 to the code's current_uses and records one
\* completed transaction; a redemption of an unknown or inactive code, an
\* expired code or a code with current_uses >= max_uses returns success=false
\* and leaves balance and current_uses unchanged; current_uses never exceeds
\* max_uses.
RedeemedRow == redeem_call.db_before.codes[Upper(redeem_call.code)]

SuccessfulRedemptionEffect ==
    (redeem_call.returned /\ redeem_call.success) =>
        /\ credit_db.balance =
              [redeem_call.db_before.balance EXCEPT
                  ![redeem_call.user_id] = @ + RedeemedRow.credit_amount]
        /\ credit_db.codes =
              [redeem_call.db_before.codes EXCEPT
                  ![Upper(redeem_call.code)].current_uses = @ + 1]
        /\ Len(credit_db.transactions) = Len(redeem_call.db_before.transactions) + 1
        /\ SubSeq(credit_db.transactions, 1, Len(redeem_call.db_before.transactions))
              = redeem_call.db_before.transactions
        /\ credit_db.transactions[Len(credit_db.transactions)].status = "completed"
        /\ credit_db.transactions[Len(credit_db.transactions)].user_id = redeem_call.user_id
        /\ credit_db.transactions[Len(credit_db.transactions)].amount
              = RedeemedRow.credit_amount

RejectedCode ==
    \/ Upper(redeem_call.code) \notin DOMAIN redeem_call.db_before.codes
    \/ ~RedeemedRow.is_active
    \/ RedeemedRow.expires_at = "past"
    \/ RedeemedRow.current_uses >= RedeemedRow.max_uses

RejectedRedemptionEffect ==
    (redeem_call.returned /\ RejectedCode) =>
        /\ ~redeem_call.success
        /\ credit_db.balance = redeem_call.db_before.balance
        /\ credit_db.codes = redeem_call.db_before.codes

UsesWithinMax ==
    \A c \in DOMAIN credit_db.codes :
        credit_db.codes[c].current_uses <= credit_db.codes[c].max_uses

C25_RedemptionKeepsUsesWithinMax ==
    /\ SuccessfulRedemptionEffect
    /\ RejectedRedemptionEffect
    /\ UsesWithinMax

\* the multi-use code was redeemed twice and a third redemption of it was refused
C25_Witness ==
    /\ redeem_call.returned
    /\ redeem_call.code = "MULTI"
    /\ ~redeem_call.success
    /\ redeem_call.reason = "max_uses"
    /\ credit_db.codes["MULTI"].current_uses = 2
    /\ Len(credit_db.transactions) = 3

\* ---------------------------------------------------------------------
\* PaymentService.complete_payment (services/credit_service.py)
\* ---------------------------------------------------------------------

\* how many completion calls a behaviour makes
MaxCompletions == 3

PaymentIds == {"pay_1", "pay_2"}
UnknownPaymentId == "pay_0"
PaymentStatuses == {"succeeded", "failed", "cancelled"}

\* the pending transaction create_payment stored for a payment record
PendingTransaction(user_id, amount) ==
    [user_id |-> user_id, credit_code_id |-> "none", transaction_type |-> "purchase",
     amount |-> amount, status |-> "pending"]

\* complete_payment: the rows afterwards and the dict returned; a failing
\* commit is rolled back
complete_payment(db, payment_record_id, status, commit_ok) ==
    IF payment_record_id \notin DOMAIN db.payments
    THEN [db |-> db, success |-> FALSE, transaction_status |-> "none"]
    ELSE LET tid == db.payments[payment_record_id].credit_transaction_id
             transaction == db.transactions[tid]
             after ==
                IF status = "succeeded"
                THEN [db EXCEPT !.payments[payment_record_id].status = status,
                                !.balance[transaction.user_id] = @ + transaction.amount,
                                !.transactions[tid].status = "completed"]
                ELSE [db EXCEPT !.payments[payment_record_id].status = status,
                                !.transactions[tid].status = "failed"]
         IN IF commit_ok
            THEN [db |-> after, success |-> TRUE,
                  transaction_status |-> after.transactions[tid].status]
            ELSE [db |-> db, success |-> FALSE, transaction_status |-> "none"]

InitPayment ==
    /\ plan = [steps |-> <<>>]
    /\ pc = "start"
    /\ validation = [is_valid |-> TRUE, errors |-> {}]
    /\ graph = <<>>
    /\ order = <<>>
    /\ report = [status |-> "none"]
    /\ registry_tools = RegisteredTools
    /\ validation_again = [is_valid |-> TRUE, errors |-> {}]
    /\ InitLoopVars /\ InitPlanVars /\ InitCreateVars /\ InitQualityVars
    /\ InitAgentVars /\ InitHierVars /\ InitRegistryVars /\ InitMemoryVars
    /\ InitIterVars
    /\ credit_db = [balance |-> [u \in UserIds |-> 10],
                    codes |-> << >>,
                    transactions |-> <<PendingTransaction("u1", 4),
                                       PendingTransaction("u2", 6)>>,
                    payments |-> [p \in PaymentIds |->
                                    [status |-> "pending",
                                     credit_transaction_id |->
                                        IF p = "pay_1" THEN 1 ELSE 2]]]
    /\ redeem_call = NoRedeemCall
    /\ payment_call = NoPaymentCall

CompletePayment ==
    /\ payment_call.count < MaxCompletions
    /\ \E payment_record_id \in PaymentIds \cup {UnknownPaymentId},
          status \in PaymentStatuses, commit_ok \in BOOLEAN :
          LET out == complete_payment(credit_db, payment_record_id, status, commit_ok) IN
          /\ credit_db' = out.db
          /\ payment_call' = [returned |-> TRUE, count |-> payment_call.count + 1,
                              payment_record_id |-> payment_record_id,
                              status |-> status, db_before |-> credit_db,
                              success |-> out.success,
                              transaction_status |-> out.transaction_status]
    /\ UNCHANGED redeem_call
    /\ UNCHANGED <<execVars, loopVars, planVars, createVars, qualityVars, agentVars, hierVars,
                   registryVars, memoryVars, iterVars>>

NextPayment == CompletePayment

SpecPayment == InitPayment /\ [][NextPayment]_vars

\* C30: over any sequence of complete_payment calls on a payment record the
\* user's balance grows by the transaction amount at most once; a completion
\* with a status other than succeeded leaves the balance unchanged and marks
\* the transaction failed.
CreditedAtMostOnce ==
    \A i \in 1..Len(credit_db.transactions) :
        credit_db.balance[credit_db.transactions[i].user_id]
            <= 10 + credit_db.transactions[i].amount

OtherStatusMarksFailed ==
    (payment_call.returned /\ payment_call.success /\ payment_call.status # "succeeded") =>
        /\ credit_db.balance = payment_call.db_before.balance
        /\ payment_call.transaction_status = "failed"

C30_PaymentCreditedAtMostOnce ==
    /\ CreditedAtMostOnce
    /\ OtherStatusMarksFailed

\* ---------------------------------------------------------------------
\* Executor._topological_sort: the fallback order (executor.py 370-374)
\* ---------------------------------------------------------------------

\* lines 355-368: the list the Kahn pass produced
KahnPass(g, perm) ==
    LET in_degree == InDegree(g)
    IN  KahnLoop(g, SelectSeq(perm, LAMBDA n : in_degree[n] = 0), in_degree, << >>)

\* len(result) != len(all_steps), whatever order the set lists the ids in
KahnPassIncomplete(g) ==
    \A perm \in Perms(AllSteps(g)) : Len(KahnPass(g, perm)) # Cardinality(AllSteps(g))

\* the ids of the plan's steps in the order the plan lists them
OriginalStepOrder(steps) == [i \in DOMAIN steps |-> steps[i].id]

\* C26: when the Kahn pass does not cover every node of the graph, the order
\* returned is the plan's original step order: the ids of the declared steps,
\* each once, in the order the plan lists them.
C26_FallbackIsOriginalStepOrder ==
    (pc = "ordered" /\ KahnPassIncomplete(graph)) => order = OriginalStepOrder(plan)

\* C27: every plan that validation accepts (is_valid true) has unique step
\* ids, dependencies that all name steps of the same plan, and no dependency
\* cycle.
C27_AcceptedPlanSatisfiesStepInvariant ==
    (Validated /\ validation.is_valid)
        => (UniqueIds(plan) /\ DependenciesClosed(plan) /\ ~Cyclic(plan))

\* C28: when the step loop of execute_plan has run over n steps and the run
\* goes on to build its completed report, quality_metrics.steps_failed is the
\* number of step results with status error, steps_completed is the number
\* of step results that are not errors, and the two add up to n.  (A plan
\* without steps returns at lines 30-36 and does not reach the loop.)
ErrorResults == {k \in DOMAIN results : results[k].status = "error"}

====
